---------------------------- MODULE Spec2Model ----------------------------
(***************************************************************************)
(* Engify AI services: the multi-agent workflows (Engineering-Leadership,  *)
(* Article Generation, Think Tank), the Engineering-Leadership serverless  *)
(* handler and the self-hosted memory service, as state machines.          *)
(*                                                                         *)
(* Text is a sequence of one-character strings; NL is the newline.         *)
(* A language-model call is an input: it returns a text or it fails.       *)
(***************************************************************************)
EXTENDS Integers, Sequences, FiniteSets, TLC

VARIABLES
    el_state,   \* AIIntegrationState dict threaded through the EL graph
    el_node,    \* node of the EL graph about to run ("END", "raised", "idle")
    el_calls,   \* number of model calls made by EL nodes
    el_failed,  \* some model call of this run raised
    el_end      \* which branch of should_continue ended the run
VARIABLES
    art_state,  \* ArticleState dict
    art_node,
    art_calls
VARIABLES
    tt_state,   \* ThinkTankState dict
    tt_node,
    tt_calls,   \* sequence of the roles/nodes that made a model call, in order
    tt_route    \* last result of should_continue ("none" before the first)

VARIABLES
    h_pc,        \* position of the Engineering-Leadership handler
    h_event,     \* the event of the current invocation
    h_local,     \* the handler's locals: situation, context, rag_context
    h_resp,      \* the response returned by the current invocation
    h_effects,   \* external operations of the current invocation, in order
    h_count,     \* invocations started in this execution context
    db_cache,    \* the module global _db ("None" or "db")
    clients,     \* number of MongoClient objects created
    env_uri,     \* MONGODB_URI is set
    sessions     \* the ai_integration_sessions collection

VARIABLES
    mem_records, \* rows of the memories table, in insertion order
    mem_now,     \* the clock of the memory service
    mem_req,     \* the request handled last
    mem_resp     \* its response

VARIABLES
    rl_event,    \* the event (or context) of the RAG-search lambda's last invocation
    rl_resp,     \* the response of that invocation
    rl_count     \* invocations of the RAG-search lambda so far

VARIABLES
    rc_args,     \* the arguments of a call of get_rag_context
    rc_result    \* what the call came to

VARIABLES
    api_pc,      \* position of the RAG API: "start", "connecting", "waiting",
                 \* "serving", "aborted"
    api_env,     \* whether MONGODB_URI is set
    api_model,   \* the global model: "None" or "model"
    api_db,      \* the global db: "None" or "db"
    api_conn,    \* the connection loop: attempts made, outcome of the last
                 \* one, the waits slept, retry_delay
    api_req,     \* the search request handled last
    api_resp,    \* its response
    api_count,   \* requests handled so far
    api_health   \* the health check made last: the ping's outcome and the answer

VARIABLES
    ai_req,      \* the request the AI Execution endpoint received last
    ai_call,     \* what the provider's call came to
    ai_resp,     \* the endpoint's answer
    ai_count     \* requests handled so far

VARIABLES
    log_variant, \* which logging module the process uses: "shared" (python/utils),
                 \* "lambda" or "memory"
    log_env,     \* LOG_LEVEL and the JSON toggle of the environment
    log_state,   \* _configured, _service_name, the root logger's level and handlers
    log_done,    \* whether a configuration call has completed since start or reset
    log_last,    \* the operation made last, with the state it found
    log_count    \* operations made so far

VARIABLES
    mt_args,     \* the arguments of a call of merge_tags looked at on its own
    mt_result    \* what it returned

VARIABLES
    slop_text,   \* the text given to the AI Slop Detector
    slop_result  \* the part of its report on specific examples

elVars  == <<el_state, el_node, el_calls, el_failed, el_end>>
memVars == <<mem_records, mem_now, mem_req, mem_resp>>
hVars   == <<h_pc, h_event, h_local, h_resp, h_effects, h_count,
             db_cache, clients, env_uri, sessions>>
artVars == <<art_state, art_node, art_calls>>
ttVars  == <<tt_state, tt_node, tt_calls, tt_route>>
rlVars  == <<rl_event, rl_resp, rl_count>>
rcVars  == <<rc_args, rc_result>>
slopVars == <<slop_text, slop_result>>
mtVars  == <<mt_args, mt_result>>
logVars == <<log_variant, log_env, log_state, log_done, log_last, log_count>>
aiVars  == <<ai_req, ai_call, ai_resp, ai_count>>
apiVars == <<api_pc, api_env, api_model, api_db, api_conn, api_req, api_resp, api_count, api_health>>
vars    == <<elVars, artVars, ttVars, hVars, memVars, rlVars, rcVars, apiVars, aiVars, logVars, mtVars, slopVars>>

\* What each part of the system leaves alone.
notEL  == <<artVars, ttVars, hVars, memVars, rlVars, rcVars, apiVars, aiVars, logVars, mtVars, slopVars>>
notArt == <<elVars, ttVars, hVars, memVars, rlVars, rcVars, apiVars, aiVars, logVars, mtVars, slopVars>>
notTT  == <<elVars, artVars, hVars, memVars, rlVars, rcVars, apiVars, aiVars, logVars, mtVars, slopVars>>
notH   == <<artVars, ttVars, memVars, rlVars, rcVars, apiVars, aiVars, logVars, mtVars, slopVars>>
notMem == <<elVars, artVars, ttVars, hVars, rlVars, rcVars, apiVars, aiVars, logVars, mtVars, slopVars>>
notRL  == <<elVars, artVars, ttVars, hVars, memVars, rcVars, apiVars, aiVars, logVars, mtVars, slopVars>>
notRC  == <<elVars, artVars, ttVars, hVars, memVars, rlVars, apiVars, aiVars, logVars, mtVars, slopVars>>
notApi == <<elVars, artVars, ttVars, hVars, memVars, rlVars, rcVars, aiVars, logVars, mtVars, slopVars>>
notAi  == <<elVars, artVars, ttVars, hVars, memVars, rlVars, rcVars, apiVars, logVars, mtVars, slopVars>>
notLog == <<elVars, artVars, ttVars, hVars, memVars, rlVars, rcVars, apiVars, aiVars, mtVars, slopVars>>
notMT  == <<elVars, artVars, ttVars, hVars, memVars, rlVars, rcVars, apiVars, aiVars, logVars, slopVars>>
notSlop == <<elVars, artVars, ttVars, hVars, memVars, rlVars, rcVars, apiVars, aiVars, logVars, mtVars>>

---------------------------------------------------------------------------
\* Text and model calls

NL == "\n"
EmptyText == <<>>
\* Texts a model call may return (the empty answer included).
Replies == {<<>>, <<"a">>}

\* The outcome of one model call: a response with its content, or an exception.
Fail == [ok |-> FALSE, content |-> <<>>]
LLMOutcomes == {[ok |-> TRUE, content |-> r] : r \in Replies} \cup {Fail}

IsPrefix(s, t) == Len(s) <= Len(t) /\ SubSeq(t, 1, Len(s)) = s

NoResponse == [statusCode |-> 0]

\* The connection loop before its first attempt.
NoAttempt == [attempts |-> 0, last |-> "none", waits |-> <<>>, retry_delay |-> 2]

\* The RAG API is not part of the run.
InitRagApiIdle ==
    /\ api_pc = "idle" /\ api_env = FALSE /\ api_model = "None" /\ api_db = "None"
    /\ api_conn = NoAttempt /\ api_req = [query |-> "none"]
    /\ api_resp = [status |-> 0] /\ api_count = 0 /\ api_health = [asked |-> FALSE]

\* The AI Execution endpoint is not part of the run.
InitAiIdle ==
    /\ ai_req = [provider |-> "none"] /\ ai_call = [raised |-> FALSE]
    /\ ai_resp = [status |-> 0] /\ ai_count = 0

\* No logging module is looked at on its own.
InitLogIdle ==
    /\ log_variant = "none" /\ log_env = [LOG_LEVEL |-> "unset", LOG_JSON |-> "unset"]
    /\ log_state = [configured |-> FALSE] /\ log_done = FALSE
    /\ log_last = [op |-> "none"] /\ log_count = 0

\* The AI Slop Detector is not part of the run.
InitSlopIdle == slop_text = <<>> /\ slop_result = [pending |-> FALSE]

\* No call of merge_tags is looked at on its own.
InitMergeTagsIdle == mt_args = [standard |-> <<>>] /\ mt_result = [pending |-> FALSE]

\* The stand-alone services and utilities are not part of the run.
InitUtilitiesIdle == InitAiIdle /\ InitLogIdle /\ InitMergeTagsIdle /\ InitSlopIdle

\* No call of get_rag_context is looked at on its own.
InitRagContextIdle == rc_args = [db |-> "idle"] /\ rc_result = [pending |-> FALSE]

\* The RAG-search lambda has not been invoked.
InitRagLambda ==
    /\ rl_event = [shape |-> "none"] /\ rl_resp = NoResponse /\ rl_count = 0

\* The memory service has an empty table and has served nothing.
InitMem ==
    /\ mem_records = <<>> /\ mem_now = 0
    /\ mem_req = [op |-> "none"] /\ mem_resp = NoResponse

\* The handler is not part of the run.
InitHIdle ==
    /\ h_pc = "idle" /\ h_event = [shape |-> "none"] /\ h_local = [set |-> FALSE]
    /\ h_resp = NoResponse /\ h_effects = <<>> /\ h_count = 0
    /\ db_cache = "None" /\ clients = 0 /\ env_uri = FALSE /\ sessions = <<>>
    /\ InitMem /\ InitRagLambda /\ InitRagContextIdle /\ InitRagApiIdle

---------------------------------------------------------------------------
\* Engineering-Leadership workflow (lambda/agents/scrum_meeting.py)

MaxTurnsEL == 12
MinRoundsTurns == 8
MaxTurnsBound == 13

ELInitialState(situation, context, rag, topic, mt) ==
    [situation |-> situation, context |-> context, rag_context |-> rag,
     current_topic |-> topic,
     director_notes |-> EmptyText, manager_notes |-> EmptyText,
     tech_lead_notes |-> EmptyText, architect_notes |-> EmptyText,
     recommendations |-> <<>>, implementation_plan |-> <<>>,
     risks_and_mitigations |-> <<>>,
     turn_count |-> 0, max_turns |-> mt]

\* A node's result: the state it returns, the model calls it made, whether
\* the model call raised out of the node.
Result(st, calls, raised) == [st |-> st, calls |-> calls, raised |-> raised]

\* Faulty variant: the turn catches the failure of its model call and goes on.
ELRoleTurn_swallow(state, notes, out) ==
    IF state.turn_count >= state.max_turns THEN Result(state, 0, FALSE)
    ELSE IF ~out.ok THEN Result([state EXCEPT !.turn_count = @ + 1], 1, FALSE)
    ELSE Result([state EXCEPT ![notes] = @ \o <<NL>> \o out.content,
                              !.turn_count = @ + 1], 1, FALSE)

ELRoleTurn(state, notes, out) ==
    IF state.turn_count >= state.max_turns THEN Result(state, 0, FALSE)
    ELSE IF ~out.ok THEN Result(state, 1, TRUE)
    ELSE Result([state EXCEPT ![notes] = @ \o <<NL>> \o out.content,
                              !.turn_count = @ + 1], 1, FALSE)

director_turn(state, out)  == ELRoleTurn(state, "director_notes", out)
manager_turn(state, out)   == ELRoleTurn(state, "manager_notes", out)
el_tech_lead_turn(state, out) == ELRoleTurn(state, "tech_lead_notes", out)
el_architect_turn(state, out) == ELRoleTurn(state, "architect_notes", out)

\* Faulty variant: the minimum-rounds branch taken after one round.
el_should_continue_one_round(state) ==
    IF state.turn_count >= state.max_turns THEN "end_ceiling"
    ELSE IF state.turn_count >= 4 /\ state.current_topic # EmptyText
         THEN "end_min_rounds"
    ELSE "continue"

\* Faulty variant: the ceiling is not looked at.
el_should_continue_no_ceiling(state) ==
    IF state.turn_count >= MinRoundsTurns /\ state.current_topic # EmptyText
    THEN "end_min_rounds"
    ELSE "continue"

\* "end_ceiling" and "end_min_rounds" are the two places that return "end".
el_should_continue(state) ==
    IF state.turn_count >= state.max_turns THEN "end_ceiling"
    ELSE IF state.turn_count >= MinRoundsTurns /\ state.current_topic # EmptyText
         THEN "end_min_rounds"
    ELSE "continue"

\* Inside the handler one reply text is enough; a bare run takes them all.
HandlerOutcomes == {[ok |-> TRUE, content |-> <<"a">>], Fail}
ELOutcomes == IF h_pc = "run" THEN HandlerOutcomes ELSE LLMOutcomes

ELStep(node, next, res, out) ==
    /\ el_node = node
    /\ el_state' = res.st
    /\ el_calls' = el_calls + res.calls
    /\ el_failed' = (el_failed \/ (res.calls > 0 /\ ~out.ok))
    /\ el_node' = IF res.raised THEN "raised" ELSE next
    /\ UNCHANGED el_end

Director == \E out \in ELOutcomes :
    ELStep("director", "manager", director_turn(el_state, out), out) /\ UNCHANGED notEL

Manager == \E out \in ELOutcomes :
    ELStep("manager", "tech_lead", manager_turn(el_state, out), out) /\ UNCHANGED notEL

TechLead == \E out \in ELOutcomes :
    ELStep("tech_lead", "architect", el_tech_lead_turn(el_state, out), out) /\ UNCHANGED notEL

\* The architect node and the conditional edge that follows it.
Architect == \E out \in ELOutcomes :
    LET res == el_architect_turn(el_state, out)
        route == el_should_continue(res.st)
    IN  /\ el_node = "architect"
        /\ el_state' = res.st
        /\ el_calls' = el_calls + res.calls
        /\ el_failed' = (el_failed \/ (res.calls > 0 /\ ~out.ok))
        /\ el_node' = IF res.raised THEN "raised"
                      ELSE IF route = "continue" THEN "director" ELSE "END"
        /\ el_end' = IF res.raised THEN el_end ELSE route
        /\ UNCHANGED notEL

---------------------------------------------------------------------------
\* Article Generation workflow (lambda/agents/article_generation.py)

MaxTurnsArticle == 6
MaxTurnsArtBound == 7

\* A completed article model call returns some content.
ArtReplies == {<<"a">>, <<"b">>}
ArtOutcomes == {[ok |-> TRUE, content |-> r] : r \in ArtReplies} \cup {Fail}

ArtInitialState(mt) ==
    [research_data |-> <<"r">>, target_keywords |-> <<"k">>,
     article_type |-> "comparison", article_title |-> <<"t">>,
     article_structure |-> EmptyText, technical_content |-> EmptyText,
     community_content |-> EmptyText, product_content |-> EmptyText,
     seo_content |-> EmptyText, final_article |-> EmptyText,
     turn_count |-> 0, max_turns |-> mt]

ArtIdle == ArtInitialState(0)

\* The five role turns replace their field with the response content.
ArtRoleTurn(state, field, out) ==
    IF state.turn_count >= state.max_turns THEN Result(state, 0, FALSE)
    ELSE IF ~out.ok THEN Result(state, 1, TRUE)
    ELSE Result([state EXCEPT ![field] = out.content,
                              !.turn_count = @ + 1], 1, FALSE)

technical_writer_turn(state, out)   == ArtRoleTurn(state, "article_structure", out)
developer_advocate_turn(state, out) == ArtRoleTurn(state, "technical_content", out)
community_manager_turn(state, out)  == ArtRoleTurn(state, "community_content", out)
product_marketer_turn(state, out)   == ArtRoleTurn(state, "product_content", out)
seo_specialist_turn(state, out)     == ArtRoleTurn(state, "seo_content", out)

\* No ceiling check and no increment of turn_count.
assemble_article(state, out) ==
    IF ~out.ok THEN Result(state, 1, TRUE)
    ELSE Result([state EXCEPT !.final_article = out.content], 1, FALSE)

ArtNodes == <<"technical_writer", "developer_advocate", "community_manager",
              "product_marketer", "seo_specialist", "assemble">>

ArtNode(n, state, out) ==
    CASE n = "technical_writer"   -> technical_writer_turn(state, out)
      [] n = "developer_advocate" -> developer_advocate_turn(state, out)
      [] n = "community_manager"  -> community_manager_turn(state, out)
      [] n = "product_marketer"   -> product_marketer_turn(state, out)
      [] n = "seo_specialist"     -> seo_specialist_turn(state, out)
      [] n = "assemble"           -> assemble_article(state, out)

\* The edges of the linear graph.
ArtEdge(n) ==
    CASE n = "technical_writer"   -> "developer_advocate"
      [] n = "developer_advocate" -> "community_manager"
      [] n = "community_manager"  -> "product_marketer"
      [] n = "product_marketer"   -> "seo_specialist"
      [] n = "seo_specialist"     -> "assemble"
      [] n = "assemble"           -> "END"

\* One step of the compiled article graph: the current node, then its edge.
ArtStep == \E i \in 1..Len(ArtNodes), out \in ArtOutcomes :
    LET res == ArtNode(ArtNodes[i], art_state, out)
    IN  /\ art_node = ArtNodes[i]
        /\ art_state' = res.st
        /\ art_calls' = art_calls + res.calls
        /\ art_node' = IF res.raised THEN "raised" ELSE ArtEdge(ArtNodes[i])
        /\ UNCHANGED notArt

InitArtIdle == art_state = ArtIdle /\ art_node = "idle" /\ art_calls = 0

---------------------------------------------------------------------------
\* Think Tank workflow (mcp-server/think_tank/workflow.py)

MaxRoundsTT == 3
MaxRoundsBound == 12

TTRoles == <<"Scrum Master", "Product Manager", "VP of Engineering",
             "Tech Lead", "Architect">>

TTInitialState(rc, mr) ==
    [situation |-> <<"s">>, context |-> <<"c">>, user_id |-> "u",
     scrum_master_analysis |-> EmptyText, product_manager_analysis |-> EmptyText,
     vp_eng_analysis |-> EmptyText, tech_lead_analysis |-> EmptyText,
     architect_analysis |-> EmptyText,
     challenges |-> <<>>, refinements |-> <<>>,
     agreements |-> <<>>, concerns |-> <<>>, blockers |-> <<>>,
     recommendations |-> <<>>,
     consensus_reached |-> FALSE, final_recommendation |-> EmptyText,
     action_items |-> <<>>, next_steps |-> <<>>,
     round_count |-> rc, max_rounds |-> mr,
     consensus_threshold |-> "0.7", started_at |-> 0, completed_at |-> "None"]

TTIdle == TTInitialState(0, 0)

\* Every role turn replaces its analysis and adds one to round_count.
TTRoleTurn(state, role, field, out) ==
    IF state.round_count >= state.max_rounds THEN Result(state, <<>>, FALSE)
    ELSE IF ~out.ok THEN Result(state, <<role>>, TRUE)
    ELSE Result([state EXCEPT ![field] = out.content,
                              !.round_count = @ + 1], <<role>>, FALSE)

scrum_master_turn(state, out) ==
    TTRoleTurn(state, "Scrum Master", "scrum_master_analysis", out)
product_manager_turn(state, out) ==
    TTRoleTurn(state, "Product Manager", "product_manager_analysis", out)
vp_eng_turn(state, out) ==
    TTRoleTurn(state, "VP of Engineering", "vp_eng_analysis", out)
tech_lead_turn(state, out) ==
    TTRoleTurn(state, "Tech Lead", "tech_lead_analysis", out)
architect_turn(state, out) ==
    TTRoleTurn(state, "Architect", "architect_analysis", out)

\* outs[i] is the outcome of the call made for TTRoles[i]; the loop stops at
\* the first call that raises.
FirstFailure(outs) ==
    IF \E i \in 1..Len(outs) : ~outs[i].ok
    THEN CHOOSE i \in 1..Len(outs) :
            ~outs[i].ok /\ \A j \in 1..(i - 1) : outs[j].ok
    ELSE 0

ChallengeCall(role) == <<"challenge", role>>

challenge_round(state, outs) ==
    IF state.round_count >= state.max_rounds THEN Result(state, <<>>, FALSE)
    ELSE LET f == FirstFailure(outs)
         IN  IF f # 0
             THEN Result(state, [i \in 1..f |-> ChallengeCall(TTRoles[i])], TRUE)
             ELSE Result(
                    [state EXCEPT
                       !.challenges = [i \in 1..Len(TTRoles) |->
                                         [role |-> TTRoles[i],
                                          challenge |-> outs[i].content]],
                       !.round_count = @ + 1],
                    [i \in 1..Len(TTRoles) |-> ChallengeCall(TTRoles[i])], FALSE)

\* Faulty variant: the response is taken apart into agreements.
consensus_building_parsed(state, out) ==
    IF ~out.ok THEN Result(state, <<"consensus">>, TRUE)
    ELSE Result([state EXCEPT
                   !.agreements = <<out.content>>,
                   !.final_recommendation = out.content,
                   !.consensus_reached = TRUE,
                   !.round_count = @ + 1],
                <<"consensus">>, FALSE)

\* No ceiling check; the structured lists are left empty.
consensus_building(state, out) ==
    IF ~out.ok THEN Result(state, <<"consensus">>, TRUE)
    ELSE LET agreements == <<>>
             blockers == <<>>
         IN Result([state EXCEPT
                      !.agreements = agreements,
                      !.concerns = <<>>,
                      !.blockers = blockers,
                      !.recommendations = <<>>,
                      !.action_items = <<>>,
                      !.final_recommendation = out.content,
                      !.consensus_reached =
                          (Len(blockers) = 0 /\ Len(agreements) > 0),
                      !.round_count = @ + 1],
                   <<"consensus">>, FALSE)

\* Faulty variant: the ceiling compared with > instead of >=.
should_continue_strict_ceiling(state) ==
    IF state.round_count > state.max_rounds THEN "consensus"
    ELSE IF state.consensus_reached THEN "consensus"
    ELSE IF state.round_count >= 2 /\ Len(state.blockers) > 0 THEN "need_verification"
    ELSE "continue"

should_continue(state) ==
    IF state.round_count >= state.max_rounds THEN "consensus"
    ELSE IF state.consensus_reached THEN "consensus"
    ELSE IF state.round_count >= 2 /\ Len(state.blockers) > 0 THEN "need_verification"
    ELSE "continue"

\* The mapping of the conditional edges after consensus_building.
TTConditionalEdge(route) ==
    CASE route = "consensus"         -> "END"
      [] route = "need_verification" -> "END"
      [] route = "continue"          -> "scrum_master"

TTRoleNodes == <<"scrum_master", "product_manager", "vp_eng", "tech_lead", "architect">>

TTRoleNode(n, state, out) ==
    CASE n = "scrum_master"    -> scrum_master_turn(state, out)
      [] n = "product_manager" -> product_manager_turn(state, out)
      [] n = "vp_eng"          -> vp_eng_turn(state, out)
      [] n = "tech_lead"       -> tech_lead_turn(state, out)
      [] n = "architect"       -> architect_turn(state, out)

\* Faulty variant: the Architect placed before the Tech Lead.
TTEdge_architect_first(n) ==
    CASE n = "scrum_master"    -> "product_manager"
      [] n = "product_manager" -> "vp_eng"
      [] n = "vp_eng"          -> "architect"
      [] n = "architect"       -> "tech_lead"
      [] n = "tech_lead"       -> "challenge_round"
      [] n = "challenge_round" -> "consensus_building"

TTEdge(n) ==
    CASE n = "scrum_master"    -> "product_manager"
      [] n = "product_manager" -> "vp_eng"
      [] n = "vp_eng"          -> "tech_lead"
      [] n = "tech_lead"       -> "architect"
      [] n = "architect"       -> "challenge_round"
      [] n = "challenge_round" -> "consensus_building"

\* The analyses of other roles each Round 1 node puts into its prompt
\* ("Previous perspectives").
TTReads(n) ==
    CASE n = "scrum_master"    -> {}
      [] n = "product_manager" -> {"scrum_master_analysis"}
      [] n = "vp_eng"          -> {"scrum_master_analysis", "product_manager_analysis"}
      [] n = "tech_lead"       -> {"vp_eng_analysis", "product_manager_analysis"}
      [] n = "architect"       -> {"tech_lead_analysis", "vp_eng_analysis"}

TTApply(res, next) ==
    /\ tt_state' = res.st
    /\ tt_calls' = tt_calls \o res.calls
    /\ tt_node' = IF res.raised THEN "raised" ELSE next

\* One of the five Round 1 nodes, then its edge.
TTRoleStep == \E i \in 1..Len(TTRoleNodes), out \in LLMOutcomes :
    /\ tt_node = TTRoleNodes[i]
    /\ TTApply(TTRoleNode(TTRoleNodes[i], tt_state, out), TTEdge(TTRoleNodes[i]))
    /\ UNCHANGED <<tt_route, notTT>>

\* Every vector of five answers, and a failure at each of the five calls
\* (what the calls before a failure answered is discarded with the exception).
ChallengeOutcomes ==
    [1..Len(TTRoles) -> LLMOutcomes \ {Fail}] \cup
    {[i \in 1..Len(TTRoles) |->
        IF i = k THEN Fail ELSE [ok |-> TRUE, content |-> <<>>]] :
     k \in 1..Len(TTRoles)}

TTChallengeStep == \E outs \in ChallengeOutcomes :
    /\ tt_node = "challenge_round"
    /\ TTApply(challenge_round(tt_state, outs), TTEdge("challenge_round"))
    /\ UNCHANGED <<tt_route, notTT>>

\* consensus_building and the conditional edge that follows it.
TTConsensusStep == \E out \in LLMOutcomes :
    LET res == consensus_building(tt_state, out)
        route == should_continue(res.st)
    IN  /\ tt_node = "consensus_building"
        /\ TTApply(res, TTConditionalEdge(route))
        /\ tt_route' = IF res.raised THEN tt_route ELSE route
        /\ UNCHANGED notTT

InitTTIdle == tt_state = TTIdle /\ tt_node = "idle" /\ tt_calls = <<>> /\ tt_route = "none"

---------------------------------------------------------------------------
\* Specifications of the workflow runs

\* A run of the compiled graph from turn_count 0, for any ceiling and topic.
InitELRun ==
    /\ \E mt \in 0..MaxTurnsBound, topic \in {EmptyText, <<"s">>} :
         el_state = ELInitialState(<<"s">>, EmptyText, EmptyText, topic, mt)
    /\ el_node = "director"
    /\ el_calls = 0
    /\ el_failed = FALSE
    /\ el_end = "none"
    /\ InitArtIdle /\ InitTTIdle /\ InitHIdle /\ InitUtilitiesIdle

NextELRun == Director \/ Manager \/ TechLead \/ Architect

SpecELRun == InitELRun /\ [][NextELRun]_vars

InitELIdle ==
    /\ el_state = ELInitialState(EmptyText, EmptyText, EmptyText, EmptyText, 0)
    /\ el_node = "idle" /\ el_calls = 0 /\ el_failed = FALSE /\ el_end = "none"
    /\ InitHIdle

\* A run of the article graph from turn_count 0, for any ceiling.
InitArtRun ==
    /\ \E mt \in 0..MaxTurnsArtBound : art_state = ArtInitialState(mt)
    /\ art_node = "technical_writer"
    /\ art_calls = 0
    /\ InitELIdle /\ InitTTIdle /\ InitUtilitiesIdle

NextArtRun == ArtStep

SpecArtRun == InitArtRun /\ [][NextArtRun]_vars

\* A run of the Think Tank graph from round_count 0, for any ceiling.
InitTTRun ==
    /\ \E mr \in 0..MaxRoundsBound : tt_state = TTInitialState(0, mr)
    /\ tt_node = "scrum_master"
    /\ tt_calls = <<>>
    /\ tt_route = "none"
    /\ InitELIdle /\ InitArtIdle /\ InitUtilitiesIdle

NextTTRun == TTRoleStep \/ TTChallengeStep \/ TTConsensusStep

SpecTTRun == InitTTRun /\ [][NextTTRun]_vars

---------------------------------------------------------------------------
\* Engineering-Leadership handler (lambda/lambda_handler_multi_agent.py)

MaxInvocations == 2

\* Python values of the payload: a missing key, None, or a str.
Absent == [t |-> "absent"]
PyNone == [t |-> "None"]
Str(text) == [t |-> "str", v |-> text]

IsSpace(c) == c = " "

\* str.strip(): leading and trailing whitespace removed.
RECURSIVE LStrip(_)
LStrip(text) ==
    IF text # <<>> /\ IsSpace(Head(text)) THEN LStrip(Tail(text)) ELSE text
RECURSIVE RStrip(_)
RStrip(text) ==
    IF text # <<>> /\ IsSpace(text[Len(text)])
    THEN RStrip(SubSeq(text, 1, Len(text) - 1)) ELSE text
Strip(text) == RStrip(LStrip(text))

SituationValues == {Absent, PyNone, Str(<<>>), Str(<<" ">>), Str(<<" ", "s", " ">>)}
ContextValues == {Absent, PyNone, Str(<<"c">>)}

\* JSON values a payload may be: an object with the two fields, null, a list.
Dicts == {[t |-> "dict", situation |-> sv, context |-> cv] :
            sv \in SituationValues, cv \in ContextValues}
JsonNull == [t |-> "null"]
JsonList == [t |-> "list"]

\* A str holding JSON text: the text of a value, or text that is no JSON.
JsonText(value) == [t |-> "json_text", of |-> value]
Malformed == [t |-> "malformed_text"]

\* Events: not a dict; a dict without 'body' (the event is the payload); a
\* dict whose 'body' is a str; a dict whose 'body' is any other value
\* (an object, or None for a request without body).
Events ==
    {[shape |-> "not_dict"]} \cup
    {[shape |-> "direct", payload |-> d] : d \in Dicts} \cup
    {[shape |-> "body_str", body |-> JsonText(v)] :
        v \in Dicts \cup {JsonNull, JsonList}} \cup
    {[shape |-> "body_str", body |-> Malformed]} \cup
    {[shape |-> "body_other", body |-> v] : v \in Dicts \cup {JsonNull, JsonList}}

Raise(e) == [raised |-> TRUE, error |-> e]
Value(v) == [raised |-> FALSE, value |-> v]

\* json.loads
JsonLoads(text) ==
    IF text.t = "malformed_text" THEN Raise("JSONDecodeError") ELSE Value(text.of)

\* json.dumps of a response body
JsonDumps(value) == JsonText(value)

\* Lines 268-281: the body the handler reads its parameters from.
ParseBody(event) ==
    IF event.shape = "not_dict" THEN Value([t |-> "dict", situation |-> Absent,
                                            context |-> Absent])
    ELSE IF event.shape = "direct" THEN Value(event.payload)
    ELSE IF event.shape = "body_str" THEN JsonLoads(event.body)
    ELSE Value(event.body)

\* body.get(key, '').strip()
GetStripped(body, key) ==
    IF body.t # "dict" THEN Raise("AttributeError")
    ELSE LET v == body[key]
         IN  IF v.t = "absent" THEN Value(Strip(<<>>))
             ELSE IF v.t = "None" THEN Raise("AttributeError")
             ELSE Value(Strip(v.v))

Headers == [ContentType |-> "application/json", AccessControlAllowOrigin |-> "*"]

Response(code, body) ==
    [statusCode |-> code, headers |-> Headers, body |-> JsonDumps(body)]

\* Lines 373-388
ErrorResponse(e) ==
    Response(500, [error |-> e,
                   message |-> "Failed to run engineering leadership analysis"])

\* Lines 286-294
SituationRequired == Response(400, [error |-> "Situation is required"])

\* Lines 264-294: what parsing and validation come to: a response, or the
\* stripped situation and context to go on with.
ParseAndValidate(event) ==
    LET body == ParseBody(event)
    IN  IF body.raised THEN [done |-> TRUE, resp |-> ErrorResponse(body.error)]
        ELSE LET situation == GetStripped(body.value, "situation")
             IN  IF situation.raised
                 THEN [done |-> TRUE, resp |-> ErrorResponse(situation.error)]
                 ELSE LET context == GetStripped(body.value, "context")
                      IN  IF context.raised
                          THEN [done |-> TRUE, resp |-> ErrorResponse(context.error)]
                          ELSE IF situation.value = <<>>
                          THEN [done |-> TRUE, resp |-> SituationRequired]
                          ELSE [done |-> FALSE, situation |-> situation.value,
                                context |-> context.value]

\* Faulty variant: the cached database is not looked at.
get_db_uncached(cache, uri, connect_ok) ==
    IF ~uri THEN [db |-> "None", cache |-> cache, created |-> 0]
    ELSE IF connect_ok THEN [db |-> "db", cache |-> "db", created |-> 1]
    ELSE [db |-> "None", cache |-> cache, created |-> 0]

\* get_db(): the cached database, else a new client if MONGODB_URI is set and
\* MongoClient does not raise.  Gives the db, the new cache, clients created.
get_db(cache, uri, connect_ok) ==
    IF cache # "None" THEN [db |-> cache, cache |-> cache, created |-> 0]
    ELSE IF ~uri THEN [db |-> "None", cache |-> cache, created |-> 0]
    ELSE IF connect_ok THEN [db |-> "db", cache |-> "db", created |-> 1]
    ELSE [db |-> "None", cache |-> cache, created |-> 0]

\* The trace entry of a get_db call: what it returned.
GetDbEffect(db) == IF db = "None" THEN "get_db:None" ELSE "get_db:db"

\* What one search of get_rag_context comes to: the find raises; it finds
\* nothing; it finds documents that are all formatted; it finds documents
\* and the formatting of one raises after the heading was appended.
SearchOutcomes == {"raises", "none", "found", "partial"}

\* The outcomes of the four searches of one call.
SearchRuns ==
    [prompts : SearchOutcomes, prompts_fallback : SearchOutcomes,
     patterns : SearchOutcomes, patterns_fallback : SearchOutcomes]

\* Faulty variant: the fallback search is not wrapped in its own try.
SearchBlock_uncaught(name, primary, fallback) ==
    LET first == IF primary \in {"found", "partial"} THEN <<<<name, "heading">>>> ELSE <<>>
        item == IF primary = "found" THEN <<<<name, "items">>>> ELSE <<>>
        again == primary \in {"raises", "partial"}
        second == IF again /\ fallback \in {"found", "partial"}
                  THEN <<<<name, "fallback heading">>>> ELSE <<>>
        item2 == IF again /\ fallback = "found" THEN <<<<name, "fallback items">>>> ELSE <<>>
    IN  [parts |-> first \o item \o second \o item2,
         searches |-> <<<<name, "text">>>> \o (IF again THEN <<<<name, "regex">>>> ELSE <<>>),
         raised |-> again /\ fallback \in {"raises", "partial"}]

\* One try block of get_rag_context (lines 70-198 for prompts, 201-240 for
\* patterns): the text search, and the regex search in the except clause of
\* the first, itself inside a try.  Gives the parts appended to
\* context_parts, the searches attempted, and whether an exception leaves
\* the block.
SearchBlock(name, primary, fallback) ==
    LET first == IF primary \in {"found", "partial"} THEN <<<<name, "heading">>>> ELSE <<>>
        item == IF primary = "found" THEN <<<<name, "items">>>> ELSE <<>>
        again == primary \in {"raises", "partial"}
        second == IF again /\ fallback \in {"found", "partial"}
                  THEN <<<<name, "fallback heading">>>> ELSE <<>>
        item2 == IF again /\ fallback = "found" THEN <<<<name, "fallback items">>>> ELSE <<>>
    IN  [parts |-> first \o item \o second \o item2,
         searches |-> <<<<name, "text">>>> \o (IF again THEN <<<<name, "regex">>>> ELSE <<>>),
         raised |-> FALSE]

\* "\n".join(parts)
RECURSIVE Join(_)
Join(parts) ==
    IF parts = <<>> THEN <<>>
    ELSE IF Len(parts) = 1 THEN <<Head(parts)>>
    ELSE <<Head(parts), <<NL>>>> \o Join(Tail(parts))

\* get_rag_context: nothing without a database or with a blank query; else
\* the two blocks in turn and the parts joined.  Gives the text returned (or
\* raised), and the searches attempted.
get_rag_context(situation, additional_context, db, runs) ==
    IF db = "None" THEN [raised |-> FALSE, text |-> EmptyText, searches |-> <<>>]
    ELSE IF Strip(situation \o <<" ">> \o additional_context) = <<>>
    THEN [raised |-> FALSE, text |-> EmptyText, searches |-> <<>>]
    ELSE LET prompts == SearchBlock("prompts", runs.prompts, runs.prompts_fallback)
             patterns == SearchBlock("patterns", runs.patterns, runs.patterns_fallback)
         IN  IF prompts.raised
             THEN [raised |-> TRUE, text |-> EmptyText, searches |-> prompts.searches]
             ELSE IF patterns.raised
             THEN [raised |-> TRUE, text |-> EmptyText,
                   searches |-> prompts.searches \o patterns.searches]
             ELSE [raised |-> FALSE, text |-> Join(prompts.parts \o patterns.parts),
                   searches |-> prompts.searches \o patterns.searches]

\* Inside the handler two courses of the searches are enough: nothing found,
\* and prompts found.
HandlerSearchRuns ==
    {[prompts |-> o, prompts_fallback |-> "none", patterns |-> "none",
      patterns_fallback |-> "none"] : o \in {"none", "found"}}

\* An invocation begins: lines 264-294.
HandlerParse == \E event \in Events :
    LET r == ParseAndValidate(event)
    IN  /\ h_pc \in {"ready", "done"}
        /\ h_count < MaxInvocations
        /\ h_count' = h_count + 1
        /\ h_event' = event
        /\ h_effects' = <<>>
        /\ h_resp' = IF r.done THEN r.resp ELSE NoResponse
        /\ h_pc' = IF r.done THEN "done" ELSE "context"
        /\ h_local' = IF r.done THEN [set |-> FALSE]
                      ELSE [set |-> TRUE, situation |-> r.situation,
                            context |-> r.context, rag_context |-> EmptyText]
        /\ el_state' = ELInitialState(EmptyText, EmptyText, EmptyText, EmptyText, 0)
        /\ el_node' = "idle" /\ el_calls' = 0 /\ el_failed' = FALSE /\ el_end' = "none"
        /\ UNCHANGED <<db_cache, clients, env_uri, sessions, notH>>

\* Lines 296-315: the database, the retrieved context, the initial state.
HandlerContext == \E connect_ok \in BOOLEAN, runs \in HandlerSearchRuns :
    LET got == get_db(db_cache, env_uri, connect_ok)
        rag == get_rag_context(h_local.situation, h_local.context, got.db, runs).text
    IN  /\ h_pc = "context"
        /\ db_cache' = got.cache
        /\ clients' = clients + got.created
        /\ h_effects' = h_effects \o <<GetDbEffect(got.db)>>
                          \o (IF got.db # "None" THEN <<"search">> ELSE <<>>)
        /\ h_local' = [h_local EXCEPT !.rag_context = rag]
        /\ el_state' = ELInitialState(h_local.situation, h_local.context, rag,
                                      h_local.situation, MaxTurnsEL)
        /\ el_node' = "director"
        /\ h_pc' = "run"
        /\ UNCHANGED <<el_calls, el_failed, el_end, h_event, h_resp, h_count,
                       env_uri, sessions, notH>>

SessionData(local, result, stamp) ==
    [timestamp |-> stamp,
     situation |-> local.situation, context |-> local.context,
     rag_context |-> local.rag_context,
     conversation |-> [director |-> result.director_notes,
                       manager |-> result.manager_notes,
                       tech_lead |-> result.tech_lead_notes,
                       architect |-> result.architect_notes],
     summary |-> [recommendations |-> result.recommendations,
                  implementation_plan |-> result.implementation_plan,
                  risks_and_mitigations |-> result.risks_and_mitigations],
     turn_count |-> result.turn_count]

\* Faulty variant: the response never carries the identifier.
SuccessResponse_null_id(result, session_id) ==
    Response(200,
      [success |-> TRUE, session_id |-> 0,
       summary |-> [recommendations |-> result.recommendations,
                    implementation_plan |-> result.implementation_plan,
                    risks_and_mitigations |-> result.risks_and_mitigations],
       conversation |-> [director |-> result.director_notes,
                         manager |-> result.manager_notes,
                         tech_lead |-> result.tech_lead_notes,
                         architect |-> result.architect_notes],
       turn_count |-> result.turn_count])

\* session_id 0 stands for null.
SuccessResponse(result, session_id) ==
    Response(200,
      [success |-> TRUE, session_id |-> session_id,
       summary |-> [recommendations |-> result.recommendations,
                    implementation_plan |-> result.implementation_plan,
                    risks_and_mitigations |-> result.risks_and_mitigations],
       conversation |-> [director |-> result.director_notes,
                         manager |-> result.manager_notes,
                         tech_lead |-> result.tech_lead_notes,
                         architect |-> result.architect_notes],
       turn_count |-> result.turn_count])

\* Lines 318-371: the run has returned; save the session if there is a
\* database (a failed insert is only logged) and answer 200.
HandlerPersist == \E connect_ok \in BOOLEAN, insert_ok \in BOOLEAN :
    LET got == get_db(db_cache, env_uri, connect_ok)
        saved == got.db # "None" /\ insert_ok
        session_id == IF saved THEN Len(sessions) + 1 ELSE 0
    IN  /\ h_pc = "run"
        /\ el_node = "END"
        /\ db_cache' = got.cache
        /\ clients' = clients + got.created
        /\ sessions' = IF saved
                       THEN Append(sessions, SessionData(h_local, el_state, h_count))
                       ELSE sessions
        /\ h_effects' = h_effects \o <<GetDbEffect(got.db)>>
                          \o (IF got.db # "None" THEN <<"insert_one">> ELSE <<>>)
        /\ h_resp' = SuccessResponse(el_state, session_id)
        /\ h_pc' = "done"
        /\ UNCHANGED <<elVars, h_event, h_local, h_count, env_uri, notH>>

\* Lines 373-388: the exception of the run reaches the handler's except.
HandlerExcept ==
    /\ h_pc = "run"
    /\ el_node = "raised"
    /\ h_resp' = ErrorResponse("LLM call failed")
    /\ h_pc' = "done"
    /\ UNCHANGED <<elVars, h_event, h_local, h_effects, h_count,
                   db_cache, clients, env_uri, sessions, notH>>

InitHandler ==
    /\ h_pc = "ready" /\ h_event = [shape |-> "none"] /\ h_local = [set |-> FALSE]
    /\ h_resp = NoResponse /\ h_effects = <<>> /\ h_count = 0
    /\ db_cache = "None" /\ clients = 0 /\ env_uri \in BOOLEAN /\ sessions = <<>>
    /\ el_state = ELInitialState(EmptyText, EmptyText, EmptyText, EmptyText, 0)
    /\ el_node = "idle" /\ el_calls = 0 /\ el_failed = FALSE /\ el_end = "none"
    /\ InitArtIdle /\ InitTTIdle /\ InitMem /\ InitRagLambda /\ InitRagContextIdle /\ InitRagApiIdle /\ InitUtilitiesIdle

NextHandler ==
    \/ HandlerParse
    \/ HandlerContext
    \/ Director
    \/ Manager
    \/ TechLead
    \/ Architect
    \/ HandlerPersist
    \/ HandlerExcept

SpecHandler == InitHandler /\ [][NextHandler]_vars

\* Runs of the compiled graph, bare and inside the handler; a run that has
\* started takes its next node (the graph is invoked to completion).
InitELLive == InitELRun \/ InitHandler

SpecELLive == InitELLive /\ [][NextHandler]_vars /\ WF_vars(NextELRun)

---------------------------------------------------------------------------
\* Self-hosted memory service (services/memory-mcp/src)

MaxRequests == 3
DefaultLimit == 50
MaxLimit == 200

JwtSecret == "dev-secret"

PyInt(n) == [t |-> "int", v |-> n]

Scopes == {"memory.read", "memory.write"}

\* The JSON payload of a token: one that fits TokenClaims, or one that does not.
TokenPayloads ==
    {[shape |-> "bad"]} \cup
    {[shape |-> "ok", sub |-> "u1", orgId |-> org, plan |-> "free", role |-> "member",
      scopes |-> sc, workspaceSlug |-> ws, topic |-> "None", exp |-> exp] :
        org \in {"A", "acme"}, sc \in SUBSET Scopes,
        ws \in {"None", "", "default", "other"}, exp \in {PyNone}} \cup
    {[shape |-> "ok", sub |-> "u1", orgId |-> "A", plan |-> "free", role |-> "member",
      scopes |-> Scopes, workspaceSlug |-> "None", topic |-> "None", exp |-> PyInt(e)] :
        e \in 1..MaxRequests}

\* Authorization header values: none, another scheme, Bearer with a token
\* that is no JWT, or with a JWT signed with some secret.
AuthHeaders ==
    {[scheme |-> "missing"], [scheme |-> "Basic"],
     [scheme |-> "Bearer", token |-> [kind |-> "garbage"]]} \cup
    {[scheme |-> "Bearer",
      token |-> [kind |-> "jwt", secret |-> "other-secret", payload |-> p]] :
        p \in {q \in TokenPayloads : q.shape = "ok" /\ q.orgId = "A"
                                     /\ q.scopes = Scopes /\ q.workspaceSlug = "None"
                                     /\ q.exp = PyNone}} \cup
    {[scheme |-> "Bearer",
      token |-> [kind |-> "jwt", secret |-> JwtSecret, payload |-> p]] :
        p \in TokenPayloads}

\* detail is the message, in pieces where it is formatted from a value.
HTTPException(code, detail) == [raised |-> TRUE, status |-> code, detail |-> detail]

\* TokenClaims.workspace
Workspace(claims) ==
    IF claims.workspaceSlug \in {"None", ""} THEN "default" ELSE claims.workspaceSlug

\* Faulty variant: every scope is taken as granted.
ensure_scope_granted(claims, required) == Value(claims)

\* TokenClaims.ensure_scope
ensure_scope(claims, required) ==
    IF required \notin claims.scopes
    THEN HTTPException(403, <<"Missing required scope: ", required>>)
    ELSE Value(claims)

\* Faulty variant: the expiry is never looked at.
decode_jwt_no_expiry(token, secret, now) ==
    IF token.kind # "jwt" THEN HTTPException(401, <<"Invalid token">>)
    ELSE IF token.secret # secret THEN HTTPException(401, <<"Invalid token">>)
    ELSE IF token.payload.shape # "ok" THEN HTTPException(401, <<"Invalid token">>)
    ELSE Value(token.payload)

\* decode_jwt: jwt.decode rejects what is no JWT, a wrong signature and an
\* exp before now; model_validate rejects an unfit payload; then the check of
\* exp against now.
decode_jwt(token, secret, now) ==
    IF token.kind # "jwt" THEN HTTPException(401, <<"Invalid token">>)
    ELSE IF token.secret # secret THEN HTTPException(401, <<"Invalid token">>)
    ELSE IF token.payload.shape # "ok" THEN HTTPException(401, <<"Invalid token">>)
    ELSE IF token.payload.exp.t = "int" /\ token.payload.exp.v < now
         THEN HTTPException(401, <<"Invalid token">>)
    ELSE IF token.payload.exp.t = "int" /\ token.payload.exp.v <= now
         THEN HTTPException(401, <<"Token has expired">>)
    ELSE Value(token.payload)

\* authorize_request
authorize_request(authorization, secret, now) ==
    IF authorization.scheme # "Bearer"
    THEN HTTPException(401, <<"Authorization header missing">>)
    ELSE decode_jwt(authorization.token, secret, now)

\* Tags are texts; ":" is the separator.
Tag(key, value) == <<key, ":", value>>
HasColon(tag) == \E i \in 1..Len(tag) : tag[i] = ":"

\* build_standard_tags
build_standard_tags(claims, topic) ==
    <<Tag("org", claims.orgId), Tag("user", claims.sub),
      Tag("workspace", Workspace(claims))>>
    \o (IF topic # "None" /\ topic # "" THEN <<Tag("topic", topic)>> ELSE <<>>)

\* merge_tags: the loop over standard then additional tags.
RECURSIVE MergeLoop(_, _)
MergeLoop(tags, merged) ==
    IF tags = <<>> THEN merged
    ELSE LET tag == Head(tags)
         IN  IF tag = <<>> THEN MergeLoop(Tail(tags), merged)
             ELSE IF ~HasColon(tag) THEN MergeLoop(Tail(tags), merged)
             ELSE IF \E i \in 1..Len(merged) : merged[i] = tag
                  THEN MergeLoop(Tail(tags), merged)
             ELSE MergeLoop(Tail(tags), Append(merged, tag))

\* Faulty variant: the standard tags are taken as they are.
merge_tags_standard_kept(standard_tags, additional_tags) ==
    standard_tags \o MergeLoop(additional_tags, <<>>)

merge_tags(standard_tags, additional_tags) ==
    MergeLoop(standard_tags \o additional_tags, <<>>)

\* topic = payload.topic or auth.claims.topic
ResolveTopic(payload_topic, claims_topic) ==
    IF payload_topic # "None" /\ payload_topic # "" THEN payload_topic ELSE claims_topic

\* Faulty variant: the row is written with a later updated_at.
insert_memory_touch(memory_id, org_id, user_id, workspace, topic, content, metadata, tags, now) ==
    [memory_id |-> memory_id, org_id |-> org_id, user_id |-> user_id,
     workspace |-> workspace, topic |-> topic, content |-> content,
     metadata |-> metadata, tags |-> tags, created_at |-> now, updated_at |-> now + 1]

\* MemoryRepository.insert_memory: the row it adds.
insert_memory(memory_id, org_id, user_id, workspace, topic, content, metadata, tags, now) ==
    [memory_id |-> memory_id, org_id |-> org_id, user_id |-> user_id,
     workspace |-> workspace, topic |-> topic, content |-> content,
     metadata |-> metadata, tags |-> tags, created_at |-> now, updated_at |-> now]

\* SELECT ... WHERE id = ? AND org_id = ? AND workspace = ?  (fetchone)
MatchingRows(records, org_id, workspace, memory_id) ==
    {i \in 1..Len(records) : /\ records[i].memory_id = memory_id
                             /\ records[i].org_id = org_id
                             /\ records[i].workspace = workspace}

\* Faulty variant: the row is looked up by id and organization only.
get_memory_any_workspace(records, org_id, workspace, memory_id) ==
    LET rows == {i \in 1..Len(records) : /\ records[i].memory_id = memory_id
                                         /\ records[i].org_id = org_id}
    IN  IF rows = {} THEN <<>> ELSE <<records[CHOOSE i \in rows : TRUE]>>

\* MemoryRepository.get_memory: <<>> for None, else the one row.
get_memory(records, org_id, workspace, memory_id) ==
    LET rows == MatchingRows(records, org_id, workspace, memory_id)
    IN  IF rows = {} THEN <<>> ELSE <<records[CHOOSE i \in rows : TRUE]>>

\* content LIKE '%query%'
Contains(content, query) ==
    \E i \in 0..(Len(content) - Len(query)) :
        SubSeq(content, i + 1, i + Len(query)) = query

RECURSIVE Reverse(_)
Reverse(seq) == IF seq = <<>> THEN <<>> ELSE Append(Reverse(Tail(seq)), Head(seq))

Min(a, b) == IF a <= b THEN a ELSE b
Max(a, b) == IF a >= b THEN a ELSE b

\* MemoryRepository.search_memories: rows of the partition, filtered, newest
\* first (rows are kept in order of created_at), at most limit of them.
search_memories(records, org_id, workspace, query, topic, limit) ==
    LET keep(r) == /\ r.org_id = org_id
                   /\ r.workspace = workspace
                   /\ (topic # "None" /\ topic # "" => r.topic = topic)
                   /\ (query # <<>> => Contains(r.content, query))
        newest == Reverse(SelectSeq(records, keep))
    IN  SubSeq(newest, 1, Min(limit, Len(newest)))

\* The MemoryResponse built from a row.
MemoryResponse(record) ==
    [id |-> record.memory_id, content |-> record.content, metadata |-> record.metadata,
     tags |-> record.tags, topic |-> record.topic, orgId |-> record.org_id,
     userId |-> record.user_id, workspace |-> record.workspace,
     createdAt |-> record.created_at, updatedAt |-> record.updated_at]

RECURSIVE MapResponses(_)
MapResponses(records) ==
    IF records = <<>> THEN <<>>
    ELSE <<MemoryResponse(Head(records))>> \o MapResponses(Tail(records))

HttpError(e) == [status |-> e.status, detail |-> e.detail, body |-> <<>>]
HttpOk(code, body) == [status |-> code, detail |-> <<>>, body |-> body]

\* Requests, each with a schema-valid payload and parameters.
Contents == {<<"x">>, <<"x", "y">>}
TagsFor(content) ==
    IF Len(content) = 1 THEN <<>>
    ELSE <<Tag("org", "acme"), <<"nota-valid-tag">>, Tag("team", "core")>>

CreateRequests ==
    {[op |-> "create", authorization |-> a, content |-> c, metadata |-> "None",
      tags |-> TagsFor(c), topic |-> "None"] :
        a \in AuthHeaders, c \in Contents}
ListRequests ==
    {[op |-> "list", authorization |-> a, query |-> q, topic |-> "None", limit |-> l] :
        a \in AuthHeaders, q \in {<<>>, <<"y">>}, l \in {0, DefaultLimit}}
GetRequests ==
    {[op |-> "get", authorization |-> a, memory_id |-> i] :
        a \in AuthHeaders, i \in 1..MaxRequests}

\* POST /v1/memory: what create_memory answers and the rows afterwards.
create_memory(req, records, now) ==
    LET auth == authorize_request(req.authorization, JwtSecret, now)
    IN  IF auth.raised THEN [resp |-> HttpError(auth), records |-> records]
        ELSE LET scoped == ensure_scope(auth.value, "memory.write")
                 claims == auth.value
                 topic == ResolveTopic(req.topic, claims.topic)
                 merged_tags == merge_tags(build_standard_tags(claims, topic), req.tags)
                 record == insert_memory(Len(records) + 1, claims.orgId, claims.sub,
                                         Workspace(claims), topic, req.content,
                                         IF req.metadata = "None" THEN <<>> ELSE req.metadata,
                                         merged_tags, now)
             IN  IF scoped.raised THEN [resp |-> HttpError(scoped), records |-> records]
                 ELSE [resp |-> HttpOk(201, <<MemoryResponse(record)>>),
                       records |-> Append(records, record)]

\* GET /v1/memory
list_memories(req, records, now) ==
    LET auth == authorize_request(req.authorization, JwtSecret, now)
    IN  IF auth.raised THEN HttpError(auth)
        ELSE LET scoped == ensure_scope(auth.value, "memory.read")
                 limit == Max(1, Min(req.limit, MaxLimit))
             IN  IF scoped.raised THEN HttpError(scoped)
                 ELSE HttpOk(200, MapResponses(
                        search_memories(records, auth.value.orgId, Workspace(auth.value),
                                        req.query, req.topic, limit)))

\* GET /v1/memory/{memory_id}
get_memory_by_id(req, records, now) ==
    LET auth == authorize_request(req.authorization, JwtSecret, now)
    IN  IF auth.raised THEN HttpError(auth)
        ELSE LET scoped == ensure_scope(auth.value, "memory.read")
                 record == get_memory(records, auth.value.orgId, Workspace(auth.value),
                                      req.memory_id)
             IN  IF scoped.raised THEN HttpError(scoped)
                 ELSE IF record = <<>> THEN HttpError(HTTPException(404, <<"Memory not found">>))
                 ELSE HttpOk(200, <<MemoryResponse(record[1])>>)

\* One request is handled at a time; handling it takes one tick of the clock.
MemServe(req, resp, records) ==
    /\ mem_req.op = "none"
    /\ mem_now < MaxRequests
    /\ mem_req' = req @@ [at |-> mem_now]
    /\ mem_resp' = resp
    /\ mem_records' = records
    /\ mem_now' = mem_now + 1
    /\ UNCHANGED notMem

CreateMemory == \E req \in CreateRequests :
    LET r == create_memory(req, mem_records, mem_now)
    IN  MemServe(req, r.resp, r.records)

ListMemories == \E req \in ListRequests :
    MemServe(req, list_memories(req, mem_records, mem_now), mem_records)

GetMemory == \E req \in GetRequests :
    MemServe(req, get_memory_by_id(req, mem_records, mem_now), mem_records)

\* The response has been sent; the service waits for the next request.
MemReturn ==
    /\ mem_req.op # "none"
    /\ mem_req' = [op |-> "none"]
    /\ mem_resp' = NoResponse
    /\ UNCHANGED <<mem_records, mem_now, notMem>>

InitMemService ==
    /\ InitMem /\ InitRagLambda /\ InitRagContextIdle /\ InitRagApiIdle
    /\ el_state = ELInitialState(EmptyText, EmptyText, EmptyText, EmptyText, 0)
    /\ el_node = "idle" /\ el_calls = 0 /\ el_failed = FALSE /\ el_end = "none"
    /\ h_pc = "idle" /\ h_event = [shape |-> "none"] /\ h_local = [set |-> FALSE]
    /\ h_resp = NoResponse /\ h_effects = <<>> /\ h_count = 0
    /\ db_cache = "None" /\ clients = 0 /\ env_uri = FALSE /\ sessions = <<>>
    /\ InitArtIdle /\ InitTTIdle /\ InitUtilitiesIdle

NextMemService == CreateMemory \/ ListMemories \/ GetMemory \/ MemReturn

SpecMemService == InitMemService /\ [][NextMemService]_vars

---------------------------------------------------------------------------
\* merge_tags on its own (services/memory-mcp/src/auth.py)

MaxTags == 2

\* Tags a caller may pass: empty, without a colon, well-formed.
TagPool == {<<>>, <<"bare">>, Tag("org", "A"), Tag("team", "core")}

\* Lists of at most MaxTags tags.
TagLists == UNION {[1..n -> TagPool] : n \in 0..MaxTags}

\* additional_tags is a list or None.
MergeTagsArgs ==
    [standard : TagLists, given : {TRUE}, additional : TagLists] \cup
    [standard : TagLists, given : {FALSE}]

\* The call: additional_tags or [], then the loop.
MergeTagsCall ==
    /\ mt_result = [pending |-> TRUE]
    /\ mt_result' = [pending |-> FALSE,
                     tags |-> merge_tags(mt_args.standard,
                                         IF mt_args.given THEN mt_args.additional
                                         ELSE <<>>)]
    /\ UNCHANGED <<mt_args, notMT>>

InitMergeTags ==
    /\ mt_args \in MergeTagsArgs /\ mt_result = [pending |-> TRUE]
    /\ InitELIdle /\ InitArtIdle /\ InitTTIdle /\ InitAiIdle /\ InitLogIdle /\ InitSlopIdle

NextMergeTags == MergeTagsCall

SpecMergeTags == InitMergeTags /\ [][NextMergeTags]_vars

---------------------------------------------------------------------------
\* RAG-search lambda (lambda/rag-lambda.py)

MaxRagInvocations == 2
DefaultTopK == 5

\* str.lower() on the letters the queries use.
RECURSIVE Lower(_)
Lower(text) ==
    IF text = <<>> THEN <<>>
    ELSE LET c == Head(text)
             l == IF c = "O" THEN "o" ELSE IF c = "K" THEN "k"
                  ELSE IF c = "R" THEN "r" ELSE c
         IN  <<l>> \o Lower(Tail(text))

\* search_knowledge_base: the mock results by keyword, first match wins.
search_knowledge_base(query, top_k) ==
    LET q == Lower(query)
        chain_of_thought ==
            <<"c","h","a","i","n"," ","o","f"," ","t","h","o","u","g","h","t">>
        few_shot == <<"f","e","w","-","s","h","o","t">>
        okr == <<"o","k","r">>
        retrospective == <<"r","e","t","r","o","s","p","e","c","t","i","v","e">>
        tech_debt == <<"t","e","c","h"," ","d","e","b","t">>
    IN  IF Contains(q, chain_of_thought) THEN <<[id |-> "prompt-001", score |-> "1.0"]>>
        ELSE IF Contains(q, few_shot) THEN <<[id |-> "prompt-002", score |-> "0.95"]>>
        ELSE IF Contains(q, okr) THEN <<[id |-> "workbench-001", score |-> "0.9"]>>
        ELSE IF Contains(q, retrospective) THEN <<[id |-> "workbench-002", score |-> "0.9"]>>
        ELSE IF Contains(q, tech_debt) THEN <<[id |-> "workbench-003", score |-> "0.9"]>>
        ELSE <<>>

\* Parameters objects of the RAG-search lambda: query absent, None, a str
\* (empty, matching a keyword, matching none) or a number; top_k absent or 3.
RagParams ==
    {[t |-> "dict", query |-> q, top_k |-> k] :
        q \in {Absent, PyNone, Str(<<>>), Str(<<"O", "k", "r">>),
               Str(<<"f","e","w","-","s","h","o","t">>), Str(<<"z">>), PyInt(5)},
        k \in {Absent, PyInt(3)}}

\* Events: not a dict; an OPTIONS request; a dict without 'body' (direct
\* invocation); a dict whose 'body' is a str; a dict whose 'body' is another
\* value.
RagEvents ==
    {[shape |-> "not_dict"], [shape |-> "options"]} \cup
    {[shape |-> "direct", payload |-> d] : d \in RagParams} \cup
    {[shape |-> "body_str", body |-> JsonText(v)] :
        v \in RagParams \cup {JsonNull, JsonList}} \cup
    {[shape |-> "body_str", body |-> Malformed]} \cup
    {[shape |-> "body_other", body |-> v] : v \in RagParams \cup {JsonNull, JsonList}}

\* The header maps of the four responses of lambda_handler.
PreflightHeaders ==
    [AccessControlAllowOrigin |-> "*",
     AccessControlAllowHeaders |->
        "Content-Type,X-Amz-Date,Authorization,X-Api-Key,X-Amz-Security-Token",
     AccessControlAllowMethods |-> "POST, GET, OPTIONS"]
SearchHeaders ==
    [ContentType |-> "application/json", AccessControlAllowOrigin |-> "*",
     AccessControlAllowHeaders |-> "Content-Type",
     AccessControlAllowMethods |-> "POST, OPTIONS"]

RagResponse(code, headers, body) ==
    [statusCode |-> code, headers |-> headers, body |-> JsonDumps(body)]

RagError(e) ==
    RagResponse(500, Headers,
                [success |-> FALSE, error |-> "Internal server error", details |-> e])

\* Lines 100-104: the body the parameters are read from.
RagParseBody(event) ==
    IF event.shape = "body_str" THEN JsonLoads(event.body)
    ELSE IF event.shape = "body_other" THEN Value(event.body)
    ELSE Value([t |-> "dict", query |-> Absent, top_k |-> Absent])

\* lambda_handler
lambda_handler(event) ==
    IF event.shape = "not_dict" THEN RagError("AttributeError")
    ELSE IF event.shape = "options"
    THEN RagResponse(200, PreflightHeaders, [message |-> "CORS preflight"])
    ELSE LET body == RagParseBody(event)
         IN  IF body.raised THEN RagError(body.error)
             ELSE IF body.value.t # "dict" THEN RagError("AttributeError")
             ELSE LET query == body.value.query
                      top_k == IF body.value.top_k.t = "absent"
                               THEN DefaultTopK ELSE body.value.top_k.v
                  IN  IF query.t \in {"absent", "None"} \/ (query.t = "str" /\ query.v = <<>>)
                      THEN RagResponse(400, SearchHeaders,
                             [success |-> FALSE, error |-> "Query parameter is required"])
                      ELSE IF query.t # "str" THEN RagError("AttributeError")
                      ELSE LET results == search_knowledge_base(query.v, top_k)
                           IN  RagResponse(200, SearchHeaders,
                                 [success |-> TRUE, results |-> results,
                                  query_embedding |-> "[0.1] * 384",
                                  total_results |-> Len(results), query |-> query.v])

\* health_handler: context is None or the invocation's context object.
health_handler(context) ==
    RagResponse(200, Headers,
        [status |-> "ok", service |-> "engify-rag-lambda", version |-> "1.0.0",
         message |-> "RAG Lambda service running",
         timestamp |-> IF context = "None" THEN "unknown" ELSE "aws_request_id"])

RagLambdaInvoke == \E event \in RagEvents :
    /\ rl_count < MaxRagInvocations
    /\ rl_count' = rl_count + 1
    /\ rl_event' = event
    /\ rl_resp' = lambda_handler(event)
    /\ UNCHANGED notRL

RagHealthInvoke == \E context \in {"None", "context"} :
    /\ rl_count < MaxRagInvocations
    /\ rl_count' = rl_count + 1
    /\ rl_event' = [shape |-> "health", context |-> context]
    /\ rl_resp' = health_handler(context)
    /\ UNCHANGED notRL

InitRagLambdaRun == InitELIdle /\ InitArtIdle /\ InitTTIdle /\ InitUtilitiesIdle

NextRagLambda == RagLambdaInvoke \/ RagHealthInvoke

SpecRagLambda == InitRagLambdaRun /\ [][NextRagLambda]_vars

---------------------------------------------------------------------------
\* Calls of get_rag_context on their own

RagContextArgs ==
    [situation : {EmptyText, <<" ">>, <<"s">>}, context : {EmptyText, <<"c">>},
     db : {"None", "db"}, runs : SearchRuns]

RagContextCall ==
    /\ rc_result = [pending |-> TRUE]
    /\ rc_result' = get_rag_context(rc_args.situation, rc_args.context,
                                    rc_args.db, rc_args.runs)
    /\ UNCHANGED <<rc_args, notRC>>

InitRagContext ==
    /\ rc_args \in RagContextArgs /\ rc_result = [pending |-> TRUE]
    /\ el_state = ELInitialState(EmptyText, EmptyText, EmptyText, EmptyText, 0)
    /\ el_node = "idle" /\ el_calls = 0 /\ el_failed = FALSE /\ el_end = "none"
    /\ h_pc = "idle" /\ h_event = [shape |-> "none"] /\ h_local = [set |-> FALSE]
    /\ h_resp = NoResponse /\ h_effects = <<>> /\ h_count = 0
    /\ db_cache = "None" /\ clients = 0 /\ env_uri = FALSE /\ sessions = <<>>
    /\ InitMem /\ InitRagLambda /\ InitRagApiIdle /\ InitArtIdle /\ InitTTIdle /\ InitUtilitiesIdle

NextRagContext == RagContextCall

SpecRagContext == InitRagContext /\ [][NextRagContext]_vars

---------------------------------------------------------------------------
\* RAG API (python/api/rag.py)

MaxApiRequests == 3
MaxRetries == 3
TopKDefault == 5
CandidateCap == 100
LimitCap == 20

\* What one connection attempt comes to: connected; the client or the ping
\* raises ServerSelectionTimeoutError; one of them raises another exception.
AttemptOutcomes == {"ok", "timeout", "error"}

\* Faulty variant: the last attempt is taken for one more to retry.
AfterAttempt_one_more(attempt, outcome) ==
    IF outcome = "ok" THEN "break"
    ELSE IF outcome = "timeout" /\ attempt < MaxRetries THEN "sleep"
    ELSE "raise"

\* Lines 54-73: what follows attempt number `attempt` (0-based) of the loop.
AfterAttempt(attempt, outcome) ==
    IF outcome = "ok" THEN "break"
    ELSE IF outcome = "timeout" /\ attempt < MaxRetries - 1 THEN "sleep"
    ELSE "raise"

\* Lines 34-53, 74-77: the model is loaded; then the connection loop is
\* entered if MONGODB_URI is set, and the service starts without it.
ApiStartup == \E load_ok \in BOOLEAN :
    /\ api_pc = "start"
    /\ api_model' = IF load_ok THEN "model" ELSE "None"
    /\ api_pc' = IF ~load_ok THEN "aborted"
                 ELSE IF api_env THEN "connecting" ELSE "serving"
    /\ UNCHANGED <<api_env, api_db, api_conn, api_req, api_resp, api_count, api_health, notApi>>

\* Lines 54-73: one turn of the loop up to its break, its sleep or its raise.
ApiAttempt == \E outcome \in AttemptOutcomes :
    LET then == AfterAttempt(api_conn.attempts, outcome)
    IN  /\ api_pc = "connecting"
        /\ api_conn' = [api_conn EXCEPT !.attempts = @ + 1, !.last = outcome]
        /\ api_db' = IF then = "break" THEN "db" ELSE api_db
        /\ api_pc' = CASE then = "break" -> "serving"
                       [] then = "sleep" -> "waiting"
                       [] OTHER -> "aborted"
        /\ UNCHANGED <<api_env, api_model, api_req, api_resp, api_count, api_health, notApi>>

\* Lines 69-70: the sleep is over; the delay doubles and the loop goes on.
ApiSleep ==
    /\ api_pc = "waiting"
    /\ api_conn' = [api_conn EXCEPT !.waits = Append(@, api_conn.retry_delay),
                                    !.retry_delay = @ * 2]
    /\ api_pc' = "connecting"
    /\ UNCHANGED <<api_env, api_model, api_db, api_req, api_resp, api_count, api_health, notApi>>

\* Requests that fit RAGQuery.
RAGQueries ==
    [query : {<<"q">>, <<>>}, collection : {"prompts"}, top_k : {TopKDefault, 30},
     filter : {"None", "filter"}]

\* Lines 102-107, 157-160: an HTTPException raised inside the try is an
\* Exception: the except clause answers 500 with str(e) as its detail.
Rejection(code, detail) ==
    [status |-> 500, detail |-> <<code, detail>>, effects |-> <<>>, body |-> <<>>]

\* What `not db` comes to on a Database object: the installed pymongo (no
\* version is pinned) either gives the object no truth value, and the test
\* raises NotImplementedError, or takes it for true.
DbTruth == {"raises", "true"}

\* rag_search.  encode and aggregate may raise.
rag_search(request, model, db, db_truth, encode_ok, aggregate_ok) ==
    IF model = "None" THEN Rejection(503, "Model not loaded")
    ELSE IF db = "None" THEN Rejection(503, "Database not connected")
    ELSE IF db_truth = "raises"
    THEN [status |-> 500, detail |-> <<"NotImplementedError">>, effects |-> <<>>,
          body |-> <<>>]
    ELSE IF ~encode_ok
    THEN [status |-> 500, detail |-> <<"encode">>, effects |-> <<"encode">>, body |-> <<>>]
    ELSE IF ~aggregate_ok
    THEN [status |-> 500, detail |-> <<"aggregate">>,
          effects |-> <<"encode", "aggregate">>, body |-> <<>>]
    ELSE [status |-> 200, detail |-> <<>>, effects |-> <<"encode", "aggregate">>,
          body |-> <<[numCandidates |-> Min(request.top_k * 10, CandidateCap),
                      limit |-> Min(request.top_k, LimitCap),
                      match |-> request.filter]>>]

\* POST /api/rag/search
ApiSearch == \E request \in RAGQueries, db_truth \in DbTruth, encode_ok, aggregate_ok \in BOOLEAN :
    /\ api_pc = "serving"
    /\ api_count < MaxApiRequests
    /\ api_count' = api_count + 1
    /\ api_req' = request
    /\ api_resp' = rag_search(request, api_model, api_db, db_truth, encode_ok, aggregate_ok)
    /\ UNCHANGED <<api_pc, api_env, api_model, api_db, api_conn, api_health, notApi>>

\* Faulty variant: a failed ping leaves the overall status alone.
health_ping_ignored(model, db, ping_ok) ==
    LET model_part == IF model # "None" THEN [status |-> "loaded"]
                      ELSE [status |-> "not_loaded"]
        db_part == IF db = "None" THEN [status |-> "not_connected"]
                   ELSE IF ping_ok THEN [status |-> "connected"]
                   ELSE [status |-> "error"]
    IN  [status |-> IF model = "None" \/ db = "None" THEN "degraded" ELSE "ok",
         service |-> "rag-api", model |-> model_part, database |-> db_part]

\* health: "ok" until the model is found None, the db is found None or the
\* ping raises; the nested statuses say which.
health(model, db, ping_ok) ==
    LET model_part == IF model # "None" THEN [status |-> "loaded"]
                      ELSE [status |-> "not_loaded"]
        db_part == IF db = "None" THEN [status |-> "not_connected"]
                   ELSE IF ping_ok THEN [status |-> "connected"]
                   ELSE [status |-> "error"]
    IN  [status |-> IF model = "None" \/ db = "None" \/ ~ping_ok
                    THEN "degraded" ELSE "ok",
         service |-> "rag-api", model |-> model_part, database |-> db_part]

\* GET /health
ApiHealth == \E ping_ok \in BOOLEAN :
    /\ api_pc = "serving"
    /\ api_health' = [asked |-> TRUE, ping_ok |-> ping_ok,
                      resp |-> health(api_model, api_db, ping_ok)]
    /\ UNCHANGED <<api_pc, api_env, api_model, api_db, api_conn, api_req, api_resp,
                   api_count, notApi>>

\* The service starts up, or the application serves without its lifespan
\* having run (as under the test client): model and db are None.
InitRagApi ==
    /\ api_pc \in {"start", "serving"} /\ api_env \in BOOLEAN
    /\ api_model = "None" /\ api_db = "None"
    /\ api_conn = NoAttempt /\ api_req = [query |-> "none"]
    /\ api_resp = [status |-> 0] /\ api_count = 0 /\ api_health = [asked |-> FALSE]
    /\ el_state = ELInitialState(EmptyText, EmptyText, EmptyText, EmptyText, 0)
    /\ el_node = "idle" /\ el_calls = 0 /\ el_failed = FALSE /\ el_end = "none"
    /\ h_pc = "idle" /\ h_event = [shape |-> "none"] /\ h_local = [set |-> FALSE]
    /\ h_resp = NoResponse /\ h_effects = <<>> /\ h_count = 0
    /\ db_cache = "None" /\ clients = 0 /\ env_uri = FALSE /\ sessions = <<>>
    /\ InitMem /\ InitRagLambda /\ InitRagContextIdle /\ InitArtIdle /\ InitTTIdle /\ InitUtilitiesIdle

NextRagApi == ApiStartup \/ ApiAttempt \/ ApiSleep \/ ApiSearch \/ ApiHealth

\* The sleep returns and the loop takes its next turn.
SpecRagApi ==
    InitRagApi /\ [][NextRagApi]_vars /\ WF_vars(ApiSleep) /\ WF_vars(ApiAttempt)

---------------------------------------------------------------------------
\* AI Execution API (python/api/ai_execute.py)

MaxAiRequests == 3
DefaultMaxTokens == 1000

\* The provider values AIRequest admits.
Providers == {"openai", "anthropic", "google"}

\* Request bodies: the provider is one of the three or another string.
AIRequests ==
    [prompt : {<<"p">>, <<>>}, provider : Providers \cup {"mistral"},
     model : {"None", "m"}, max_tokens : {DefaultMaxTokens}]

\* What the selected provider's call comes to: a text, or an exception
\* with its message.
ProviderCalls ==
    {[raised |-> FALSE, text |-> <<"t">>]} \cup
    [raised : {TRUE}, message : {<<"rate limit">>, <<"bad key">>}]

\* The default model of each provider (lines 38, 54, 69).
DefaultModel(provider) ==
    CASE provider = "openai" -> "gpt-4-turbo-preview"
      [] provider = "anthropic" -> "claude-3-sonnet-20240229"
      [] provider = "google" -> "gemini-pro"

\* execute_ai: every exception raised in the try, the HTTPException of the
\* last branch included, is answered 500 with str(e) as its detail.
execute_ai(request, call) ==
    IF request.provider \in Providers
    THEN IF call.raised
         THEN [status |-> 500, detail |-> call.message]
         ELSE [status |-> 200, detail |-> <<>>,
               body |-> [response |-> call.text, provider |-> request.provider,
                         model |-> IF request.model = "None"
                                   THEN DefaultModel(request.provider)
                                   ELSE request.model]]
    ELSE [status |-> 500, detail |-> <<"400: Invalid provider">>]

\* The route: the body is validated against AIRequest before execute_ai is
\* called; a provider outside the Literal is answered 422 by the framework.
AiEndpoint(request, call) ==
    IF request.provider \notin Providers
    THEN [status |-> 422, detail |-> <<"literal_error">>]
    ELSE execute_ai(request, call)

\* POST /api/ai/execute
AiExecute == \E request \in AIRequests, call \in ProviderCalls :
    /\ ai_count < MaxAiRequests
    /\ ai_count' = ai_count + 1
    /\ ai_req' = request
    /\ ai_call' = call
    /\ ai_resp' = AiEndpoint(request, call)
    /\ UNCHANGED notAi

InitAiExecute ==
    /\ ai_req = [provider |-> "none"] /\ ai_call = [raised |-> FALSE]
    /\ ai_resp = [status |-> 0] /\ ai_count = 0
    /\ InitELIdle /\ InitArtIdle /\ InitTTIdle /\ InitLogIdle /\ InitMergeTagsIdle /\ InitSlopIdle

NextAiExecute == AiExecute

SpecAiExecute == InitAiExecute /\ [][NextAiExecute]_vars

---------------------------------------------------------------------------
\* Logging configuration (python/utils/logging_config.py,
\* lambda/logging_utils.py, services/memory-mcp/src/logging_config.py)

MaxLogCalls == 3

\* The names getattr(logging, ...) finds a level under.
LevelNames == {"DEBUG", "INFO", "WARNING", "ERROR", "CRITICAL"}

\* The format string chosen by the JSON flag.
LogFormat(json_format) == IF json_format THEN "JSON_FORMAT" ELSE "DEFAULT_FORMAT"

\* logging.basicConfig(level, format, handlers=[StreamHandler]): does nothing
\* when the root logger has a handler already.
basicConfig(L, level, format) ==
    IF L.handlers # <<>> THEN L
    ELSE [L EXCEPT !.level = level,
                   !.handlers = <<[kind |-> "stream", level |-> "NOTSET", format |-> format]>>]

\* configure_logging of the shared utilities.  _service_name is assigned
\* before the level is looked up; the file handler is opened after basicConfig.
configure_logging(L, level, service_name, json_format, log_file) ==
    IF L.configured THEN [state |-> L, raised |-> FALSE]
    ELSE LET named == [L EXCEPT !.service_name = service_name]
             based == basicConfig(named, level, LogFormat(json_format))
             filed == [based EXCEPT !.handlers =
                          Append(@, [kind |-> "file", level |-> level,
                                     format |-> LogFormat(json_format)])]
         IN  IF level \notin LevelNames THEN [state |-> named, raised |-> TRUE]
             ELSE IF log_file = "None"
             THEN [state |-> [based EXCEPT !.configured = TRUE], raised |-> FALSE]
             ELSE IF log_file = "unwritable" THEN [state |-> based, raised |-> TRUE]
             ELSE [state |-> [filed EXCEPT !.configured = TRUE], raised |-> FALSE]

\* Lines 45-47 of the Lambda variant: the handlers are removed from the list
\* the loop runs over, so every second one is passed over and stays.
RemoveHandlers(handlers) ==
    LET kept == {i \in 1..Len(handlers) : i % 2 = 0}
        F[i \in 0..Len(handlers)] ==
            IF i = 0 THEN <<>>
            ELSE IF i \in kept THEN Append(F[i - 1], handlers[i]) ELSE F[i - 1]
    IN  F[Len(handlers)]

\* Faulty variant: the Lambda variant configures again when configured.
configure_lambda_logging_again(L, level, service_name, json_format) ==
    IF level \notin LevelNames THEN [state |-> L, raised |-> TRUE]
    ELSE [state |-> [L EXCEPT !.configured = TRUE, !.level = level,
                        !.handlers = Append(RemoveHandlers(@),
                            [kind |-> "stream", level |-> level,
                             format |-> LogFormat(json_format)])],
          raised |-> FALSE]

\* configure_lambda_logging
configure_lambda_logging(L, level, service_name, json_format) ==
    IF L.configured THEN [state |-> L, raised |-> FALSE]
    ELSE IF level \notin LevelNames THEN [state |-> L, raised |-> TRUE]
    ELSE [state |-> [L EXCEPT !.configured = TRUE, !.level = level,
                        !.handlers = Append(RemoveHandlers(@),
                            [kind |-> "stream", level |-> level,
                             format |-> LogFormat(json_format)])],
          raised |-> FALSE]

\* configure_logging of the memory service
memory_configure_logging(L, level, service_name, json_format) ==
    IF L.configured THEN [state |-> L, raised |-> FALSE]
    ELSE IF level \notin LevelNames THEN [state |-> L, raised |-> TRUE]
    ELSE [state |-> [basicConfig(L, level, LogFormat(json_format))
                        EXCEPT !.configured = TRUE],
          raised |-> FALSE]

\* The variant's configuration operation.
ConfigureOf(variant, L, level, service_name, json_format, log_file) ==
    CASE variant = "shared" -> configure_logging(L, level, service_name, json_format, log_file)
      [] variant = "lambda" -> configure_lambda_logging(L, level, service_name, json_format)
      [] variant = "memory" -> memory_configure_logging(L, level, service_name, json_format)

\* get_logger / get_lambda_logger: configure from the environment if
\* _configured is unset (LOG_LEVEL default INFO; the JSON toggle empty by
\* default, 'true' in the Lambda variant), then hand out the logger.
get_logger(variant, L, env) ==
    LET level == IF env.LOG_LEVEL = "unset" THEN "INFO" ELSE env.LOG_LEVEL
        json  == IF env.LOG_JSON = "unset" THEN variant = "lambda"
                 ELSE env.LOG_JSON = "true"
    IN  IF L.configured THEN [state |-> L, raised |-> FALSE, configures |-> FALSE]
        ELSE [configures |-> TRUE] @@
             ConfigureOf(variant, L, level, "None", json, "None")

\* reset_logging (shared utilities only)
reset_logging(L) ==
    [L EXCEPT !.configured = FALSE, !.service_name = "None", !.handlers = <<>>]

\* Arguments of a configuration call; only the shared variant takes a file.
ConfigureArgs ==
    [level : {"INFO", "DEBUG"}, service_name : {"None", "svc"},
     json_format : BOOLEAN, log_file : {"None", "app.log", "unwritable"}]

\* A call of the variant's configuration operation.
LogConfigure == \E a \in ConfigureArgs :
    LET res == ConfigureOf(log_variant, log_state, a.level, a.service_name,
                           a.json_format, a.log_file)
    IN  /\ log_variant # "none" /\ log_count < MaxLogCalls
        /\ log_variant # "shared" => a.log_file = "None"
        /\ log_state' = res.state
        /\ log_done' = (log_done \/ ~res.raised)
        /\ log_last' = [op |-> "configure", args |-> a, before |-> log_state,
                        done_before |-> log_done, raised |-> res.raised,
                        after |-> log_last.op]
        /\ log_count' = log_count + 1
        /\ UNCHANGED <<log_variant, log_env, notLog>>

\* A call of the variant's logger accessor.
LogGetLogger ==
    LET res == get_logger(log_variant, log_state, log_env)
    IN  /\ log_variant # "none" /\ log_count < MaxLogCalls
        /\ log_state' = res.state
        /\ log_done' = (log_done \/ (res.configures /\ ~res.raised))
        /\ log_last' = [op |-> "get_logger", configures |-> res.configures,
                        before |-> log_state, done_before |-> log_done,
                        raised |-> res.raised]
        /\ log_count' = log_count + 1
        /\ UNCHANGED <<log_variant, log_env, notLog>>

\* A call of reset_logging.
LogReset ==
    /\ log_variant = "shared" /\ log_count < MaxLogCalls
    /\ log_state' = reset_logging(log_state)
    /\ log_done' = FALSE
    /\ log_last' = [op |-> "reset", before |-> log_state, done_before |-> log_done,
                    raised |-> FALSE]
    /\ log_count' = log_count + 1
    /\ UNCHANGED <<log_variant, log_env, notLog>>

\* A handler some other part of the process put on the root logger.
Foreign(n) == [kind |-> "foreign", level |-> "NOTSET", format |-> n]

\* A fresh process: nothing configured, the root logger at WARNING with the
\* handlers the runtime installed, if any.
InitLogging ==
    /\ log_variant \in {"shared", "lambda", "memory"}
    /\ log_env \in [LOG_LEVEL : {"unset", "DEBUG", "verbose"}, LOG_JSON : {"unset", "true"}]
    /\ \E hs \in {<<>>, <<Foreign("a")>>, <<Foreign("a"), Foreign("b")>>} :
         log_state = [configured |-> FALSE, service_name |-> "None",
                      level |-> "WARNING", handlers |-> hs]
    /\ log_done = FALSE /\ log_last = [op |-> "none"] /\ log_count = 0
    /\ InitELIdle /\ InitArtIdle /\ InitTTIdle /\ InitAiIdle /\ InitMergeTagsIdle /\ InitSlopIdle

NextLogging == LogConfigure \/ LogGetLogger \/ LogReset

SpecLogging == InitLogging /\ [][NextLogging]_vars

---------------------------------------------------------------------------
\* AI Slop Detector, specific examples (lambda/lib/ai_slop_detector.py)

MaxSlopLen == 3

\* The pieces a text is made of: the substring "http", the two brackets, a
\* backtick, a digit, any other character.
SlopPieces == {"http", "[", "]", "backtick", "7", "a"}

SlopTexts == UNION {[1..n -> SlopPieces] : n \in 0..MaxSlopLen}

\* piece in text
In(piece, text) == \E i \in 1..Len(text) : text[i] = piece

\* Lines 113-126.  'http' in text or '[' in text and ']' in text groups
\* as 'http' or ('[' and ']').
SpecificExamples(text) ==
    LET has_code == In("backtick", text)
        has_numbers == In("7", text)
        has_links == In("http", text) \/ (In("[", text) /\ In("]", text))
    IN  [has_code |-> has_code, has_numbers |-> has_numbers, has_links |-> has_links,
         flags |-> (IF ~has_code THEN <<"No code examples">> ELSE <<>>)
                \o (IF ~has_numbers THEN <<"No specific numbers/data">> ELSE <<>>)
                \o (IF ~has_links THEN <<"No citations/links">> ELSE <<>>)]

\* detect_ai_slop, as far as its specific examples go.
DetectSlop ==
    /\ slop_result = [pending |-> TRUE]
    /\ slop_result' = [pending |-> FALSE] @@ SpecificExamples(slop_text)
    /\ UNCHANGED <<slop_text, notSlop>>

InitSlop ==
    /\ slop_text \in SlopTexts /\ slop_result = [pending |-> TRUE]
    /\ InitELIdle /\ InitArtIdle /\ InitTTIdle /\ InitAiIdle /\ InitLogIdle
    /\ InitMergeTagsIdle

NextSlop == DetectSlop

SpecSlop == InitSlop /\ [][NextSlop]_vars

---------------------------------------------------------------------------
\* Direct invocation of single nodes on a state, in any order

NodeCeilBound == 3
MaxFreeCalls == 4

ELNodes == <<"director", "manager", "tech_lead", "architect">>

ELNode(n, state, out) ==
    CASE n = "director"  -> director_turn(state, out)
      [] n = "manager"   -> manager_turn(state, out)
      [] n = "tech_lead" -> el_tech_lead_turn(state, out)
      [] n = "architect" -> el_architect_turn(state, out)

InvokeELNode == \E i \in 1..Len(ELNodes), out \in LLMOutcomes :
    LET res == ELNode(ELNodes[i], el_state, out)
    IN  /\ el_node = "free"
        /\ el_calls < MaxFreeCalls
        /\ el_state' = res.st
        /\ el_calls' = el_calls + res.calls
        /\ el_failed' = (el_failed \/ (res.calls > 0 /\ ~out.ok))
        /\ UNCHANGED <<el_node, el_end, notEL>>

InvokeArtNode == \E i \in 1..Len(ArtNodes), out \in ArtOutcomes :
    LET res == ArtNode(ArtNodes[i], art_state, out)
    IN  /\ art_node = "free"
        /\ art_calls < MaxFreeCalls
        /\ art_state' = res.st
        /\ art_calls' = art_calls + res.calls
        /\ UNCHANGED <<art_node, notArt>>

InvokeTTRoleNode == \E i \in 1..Len(TTRoleNodes), out \in LLMOutcomes :
    LET res == TTRoleNode(TTRoleNodes[i], tt_state, out)
    IN  /\ tt_node = "free"
        /\ Len(tt_calls) < MaxFreeCalls
        /\ tt_state' = res.st
        /\ tt_calls' = tt_calls \o res.calls
        /\ UNCHANGED <<tt_node, tt_route, notTT>>

InvokeChallengeRound == \E outs \in ChallengeOutcomes :
    LET res == challenge_round(tt_state, outs)
    IN  /\ tt_node = "free"
        /\ Len(tt_calls) < MaxFreeCalls
        /\ tt_state' = res.st
        /\ tt_calls' = tt_calls \o res.calls
        /\ UNCHANGED <<tt_node, tt_route, notTT>>

InvokeConsensusBuilding == \E out \in LLMOutcomes :
    LET res == consensus_building(tt_state, out)
    IN  /\ tt_node = "free"
        /\ Len(tt_calls) < MaxFreeCalls
        /\ tt_state' = res.st
        /\ tt_calls' = tt_calls \o res.calls
        /\ UNCHANGED <<tt_node, tt_route, notTT>>

\* One workflow's state, with its counter anywhere up to its ceiling.
InitNodesEL ==
    /\ \E mt \in 1..NodeCeilBound : \E tc \in 0..mt :
         el_state = [ELInitialState(<<"s">>, EmptyText, EmptyText, <<"s">>, mt)
                       EXCEPT !.turn_count = tc]
    /\ el_node = "free" /\ el_calls = 0 /\ el_failed = FALSE /\ el_end = "none"
    /\ InitArtIdle /\ InitTTIdle /\ InitHIdle /\ InitUtilitiesIdle

InitNodesArt ==
    /\ \E mt \in 1..NodeCeilBound : \E tc \in 0..mt :
         art_state = [ArtInitialState(mt) EXCEPT !.turn_count = tc]
    /\ art_node = "free" /\ art_calls = 0
    /\ InitELIdle /\ InitTTIdle /\ InitUtilitiesIdle

InitNodesTT ==
    /\ \E mr \in 1..NodeCeilBound : \E rc \in 0..mr :
         tt_state = TTInitialState(rc, mr)
    /\ tt_node = "free" /\ tt_calls = <<>> /\ tt_route = "none"
    /\ InitELIdle /\ InitArtIdle /\ InitUtilitiesIdle

InitNodes == InitNodesEL \/ InitNodesArt \/ InitNodesTT

NextNodes ==
    \/ InvokeELNode
    \/ InvokeArtNode
    \/ InvokeTTRoleNode
    \/ InvokeChallengeRound
    \/ InvokeConsensusBuilding

SpecNodes == InitNodes /\ [][NextNodes]_vars

---------------------------------------------------------------------------
\* Claims about the workflows

\* C1: idempotent ceiling.  In every workflow, a node invoked on a state
\* whose counter equals the ceiling makes no model call and returns the
\* state unchanged in every field.
C1_IdempotentCeiling ==
    [][ /\ (el_node = "free" /\ el_state.turn_count = el_state.max_turns)
             => (el_state' = el_state /\ el_calls' = el_calls)
        /\ (art_node = "free" /\ art_state.turn_count = art_state.max_turns)
             => (art_state' = art_state /\ art_calls' = art_calls)
        /\ (tt_node = "free" /\ tt_state.round_count = tt_state.max_rounds)
             => (tt_state' = tt_state /\ tt_calls' = tt_calls) ]_vars

\* C4: an Engineering-Leadership run from turn_count 0 never ends through
\* the minimum-rounds branch before 8 turns have completed, and with
\* max_turns below 8 it ends only on the ceiling, turn_count = max_turns.
C4_MinimumRounds ==
    /\ el_end = "end_min_rounds" =>
          (el_state.turn_count >= 8 /\ el_calls >= 8)
    /\ (el_node = "END" /\ el_state.max_turns < 8) =>
          (el_end = "end_ceiling" /\ el_state.turn_count = el_state.max_turns)

C4_Witness ==
    /\ el_node = "END"
    /\ el_end = "end_min_rounds"
    /\ el_state.turn_count = 8
    /\ el_state.max_turns = MaxTurnsEL

\* C5: the article run with max_turns 6, once complete, has a non-empty
\* final_article and turn_count exactly 6.
C5_ArticleSixTurns ==
    (art_node = "END" /\ art_state.max_turns = 6) =>
        (art_state.final_article # EmptyText /\ art_state.turn_count = 6)

\* C6: in the standard Think Tank run (round_count 0, max_rounds 3) the five
\* roles have each made their model call, in order, when the challenge round
\* is about to run.
C6_RoundOneAllFive ==
    (tt_state.max_rounds = 3 /\ tt_node = "challenge_round") =>
        tt_calls = TTRoles

\* C7: in the standard Think Tank run the challenge round makes one model
\* call per role and leaves five challenge records, one per role.
C7_ChallengeRound ==
    (tt_state.max_rounds = 3 /\ tt_node = "consensus_building") =>
        /\ Len(tt_state.challenges) = 5
        /\ \A i \in 1..5 : tt_state.challenges[i].role = TTRoles[i]
        /\ \A i \in 1..5 : \E k \in 1..Len(tt_calls) :
               tt_calls[k] = ChallengeCall(TTRoles[i])

\* C8: after a consensus-building step the run ends when round_count has
\* reached max_rounds or consensus is reached, ends when round_count >= 2
\* with blockers, and otherwise goes back to the Scrum Master node.
C8_Continuation ==
    [][ (tt_node = "consensus_building" /\ tt_node' # "raised") =>
          tt_node' =
            IF tt_state'.round_count >= tt_state'.max_rounds
               \/ tt_state'.consensus_reached
            THEN "END"
            ELSE IF tt_state'.round_count >= 2 /\ Len(tt_state'.blockers) > 0
                 THEN "END"
                 ELSE "scrum_master" ]_vars

C8_Witness ==
    /\ tt_node = "scrum_master"
    /\ tt_route = "continue"
    /\ tt_state.round_count = 7
    /\ tt_state.round_count < tt_state.max_rounds

---------------------------------------------------------------------------
\* Claims about the Engineering-Leadership handler

\* The event delivers no situation, or one that is blank after trimming.
ParamsOf(event) ==
    IF event.shape = "direct" THEN event.payload
    ELSE IF event.shape = "body_other" THEN event.body
    ELSE IF event.shape = "body_str" /\ event.body.t = "json_text" THEN event.body.of
    ELSE JsonNull

SituationAbsentOrBlank(event) ==
    /\ event.shape \in {"not_dict", "direct", "body_other", "body_str"}
    /\ ~(event.shape = "body_str" /\ event.body.t = "malformed_text")
    /\ LET params == ParamsOf(event)
       IN  \/ params.t # "dict"
           \/ params.situation.t = "absent"
           \/ (params.situation.t = "str" /\ Strip(params.situation.v) = <<>>)

\* C9: when a model call of the run fails, the handler answers 500 with the
\* error and the fixed failure message, and the invocation inserts no session.
C9_ModelFailure ==
    (h_pc = "done" /\ el_failed) =>
        /\ el_node = "raised"
        /\ h_resp.statusCode = 500
        /\ h_resp.body.of.error = "LLM call failed"
        /\ h_resp.body.of.message = "Failed to run engineering leadership analysis"
        /\ \A i \in 1..Len(h_effects) : h_effects[i] # "insert_one"
        /\ \A i \in 1..Len(sessions) : sessions[i].timestamp # h_count

C9_Witness ==
    /\ h_pc = "done"
    /\ el_failed
    /\ el_calls = 6
    /\ db_cache = "db"
    /\ h_count = 2
    /\ Len(sessions) = 1

\* C10: an event whose situation is absent or blank is answered 400 with an
\* error field and Access-Control-Allow-Origin: *, before any database
\* access, retrieval, model call or insert.
C10_SituationRequired ==
    (h_pc = "done" /\ SituationAbsentOrBlank(h_event)) =>
        /\ h_resp.statusCode = 400
        /\ "error" \in DOMAIN h_resp.body.of
        /\ h_resp.headers.AccessControlAllowOrigin = "*"
        /\ h_effects = <<>>
        /\ el_calls = 0

\* The sessions inserted by the current invocation (stamped with its number).
InsertedNow == {i \in 1..Len(sessions) : sessions[i].timestamp = h_count}

\* C11: persistence never fails a request.  When the run of a valid request
\* has completed, the handler answers 200, whether there is no connection
\* string, the connection fails or the insert raises; session_id is the
\* identifier of the record inserted by this invocation when there is one,
\* and null otherwise.
C11_PersistenceBestEffort ==
    (h_pc = "done" /\ el_node = "END") =>
        /\ h_resp.statusCode = 200
        /\ h_resp.body.of.success
        /\ IF InsertedNow = {}
           THEN h_resp.body.of.session_id = 0
           ELSE /\ h_resp.body.of.session_id \in InsertedNow
                /\ h_resp.body.of.session_id = Len(sessions)

\* A completed run with a database whose insert raised: 200 and null.
C11_Witness ==
    /\ h_pc = "done" /\ el_node = "END"
    /\ h_resp.statusCode = 200
    /\ h_effects[Len(h_effects)] = "insert_one"
    /\ InsertedNow = {}
    /\ h_resp.body.of.session_id = 0

\* The step calls get_db: the retrieval step, or the persistence step.
GetDbCalled ==
    \/ h_pc = "context"
    \/ (h_pc = "run" /\ el_node = "END" /\ h_pc' = "done")
GetDbReturned == h_effects'[Len(h_effects) + 1]

\* C12: the cached connection.  A client is created only by a get_db call;
\* with a database cached, get_db returns it and creates nothing; without a
\* connection string, or when the creation raises, get_db returns none, the
\* cache stays empty, and the handler goes on (it does not raise).
C12_CachedConnection ==
    [][ /\ ~GetDbCalled => (clients' = clients /\ db_cache' = db_cache)
        /\ GetDbCalled =>
             /\ h_pc' \in {"run", "done"}
             /\ (h_pc' = "done" => h_resp'.statusCode = 200)
             /\ db_cache # "None" =>
                   /\ GetDbReturned = "get_db:db"
                   /\ db_cache' = db_cache /\ clients' = clients
             /\ (db_cache = "None" /\ ~env_uri) =>
                   /\ GetDbReturned = "get_db:None"
                   /\ db_cache' = "None" /\ clients' = clients
             /\ GetDbReturned = "get_db:None" =>
                   (db_cache' = "None" /\ clients' = clients)
             /\ (db_cache = "None" /\ GetDbReturned = "get_db:db") =>
                   (db_cache' = "db" /\ clients' = clients + 1 /\ env_uri) ]_vars

\* The second invocation reuses the database created in the first.
C12_Witness ==
    /\ h_count = 2 /\ h_pc = "run"
    /\ sessions # <<>>
    /\ h_effects = <<"get_db:db", "search">>
    /\ clients = 1

---------------------------------------------------------------------------
\* Claims about the self-hosted memory service

\* The caller of the request handled last, when its token was accepted.
MemCaller == mem_req.authorization.token.payload
CallerPartition == <<MemCaller.orgId, Workspace(MemCaller)>>
PartitionOf(r) == <<r.org_id, r.workspace>>
MemAnswered(op, codes) == mem_req.op = op /\ mem_resp.status \in codes

\* C2: partition isolation.  A record created by a caller lies in that
\* caller's (organization, workspace) partition; get-by-id answers 200 with
\* the record exactly when a record of that id lies in the caller's own
\* partition and 404 otherwise; every record a list returns lies in the
\* caller's partition.
C2_PartitionIsolation ==
    /\ MemAnswered("create", {201}) =>
          /\ PartitionOf(mem_records[Len(mem_records)]) = CallerPartition
          /\ mem_records[Len(mem_records)].memory_id = mem_resp.body[1].id
    /\ MemAnswered("get", {200}) =>
          /\ mem_resp.body[1].id = mem_req.memory_id
          /\ <<mem_resp.body[1].orgId, mem_resp.body[1].workspace>> = CallerPartition
          /\ \E i \in 1..Len(mem_records) :
                /\ mem_resp.body[1] = MemoryResponse(mem_records[i])
                /\ PartitionOf(mem_records[i]) = CallerPartition
    /\ MemAnswered("get", {404}) =>
          ~\E i \in 1..Len(mem_records) :
                /\ mem_records[i].memory_id = mem_req.memory_id
                /\ PartitionOf(mem_records[i]) = CallerPartition
    /\ MemAnswered("list", {200}) =>
          \A k \in 1..Len(mem_resp.body) :
              /\ <<mem_resp.body[k].orgId, mem_resp.body[k].workspace>> = CallerPartition
              /\ \E i \in 1..Len(mem_records) :
                    mem_resp.body[k] = MemoryResponse(mem_records[i])

\* A record of organization A, workspace "default" is asked for with
\* credentials of organization A, workspace "other", and the answer is 404.
C2_Witness ==
    /\ MemAnswered("get", {404})
    /\ CallerPartition = <<"A", "other">>
    /\ \E i \in 1..Len(mem_records) :
          /\ mem_records[i].memory_id = mem_req.memory_id
          /\ PartitionOf(mem_records[i]) = <<"A", "default">>

\* The token of a request is structurally valid, validly signed and unexpired.
TokenAccepted(req) ==
    /\ req.authorization.scheme = "Bearer"
    /\ req.authorization.token.kind = "jwt"
    /\ req.authorization.token.secret = JwtSecret
    /\ req.authorization.token.payload.shape = "ok"
    /\ (req.authorization.token.payload.exp.t = "int" =>
            req.authorization.token.payload.exp.v > req.at)

RequiredScope(op) == IF op = "create" THEN "memory.write" ELSE "memory.read"

HasRequiredScope(req) ==
    RequiredScope(req.op) \in req.authorization.token.payload.scopes

SignedWithShape(req) ==
    /\ req.authorization.scheme = "Bearer"
    /\ req.authorization.token.kind = "jwt"
    /\ req.authorization.token.secret = JwtSecret
    /\ req.authorization.token.payload.shape = "ok"

\* C13: for every operation, a validly signed token of the expected shape
\* whose exp is at or before the time of the request is answered 401; one
\* without exp or with exp after that time is not answered 401.
C13_ExpiredToken ==
    (mem_req.op \in {"create", "list", "get"} /\ SignedWithShape(mem_req)) =>
        LET exp == mem_req.authorization.token.payload.exp
        IN  IF exp.t = "int" /\ exp.v <= mem_req.at
            THEN /\ mem_resp.status = 401
                 /\ mem_resp.detail \in {<<"Token has expired">>, <<"Invalid token">>}
                 /\ mem_resp.body = <<>>
            ELSE mem_resp.status # 401

\* A get request whose token expired one second before the request.
C13_Witness ==
    /\ mem_req.op = "get"
    /\ SignedWithShape(mem_req)
    /\ mem_req.authorization.token.payload.exp = PyInt(mem_req.at - 1)
    /\ mem_resp.status = 401

\* C14: a create request with the tags org:acme, nota-valid-tag, team:core
\* stores exactly org:<callerOrg>, user:<callerSub>, workspace:<callerWorkspace>,
\* team:core, whatever the caller's organization.
C14_StoredTags ==
    (MemAnswered("create", {201})
        /\ mem_req.tags = <<Tag("org", "acme"), <<"nota-valid-tag">>, Tag("team", "core")>>) =>
        /\ mem_records[Len(mem_records)].tags =
              <<Tag("org", MemCaller.orgId), Tag("user", MemCaller.sub),
                Tag("workspace", Workspace(MemCaller)), Tag("team", "core")>>
        /\ mem_resp.body[1].tags = mem_records[Len(mem_records)].tags

\* C15: records are immutable and append-only.  Every step keeps every
\* stored record as it was, in place; every stored record has created_at
\* equal to updated_at; list and get leave the store as it was.
C15_ImmutableRecords ==
    [][ /\ Len(mem_records') >= Len(mem_records)
        /\ \A i \in 1..Len(mem_records) : mem_records'[i] = mem_records[i]
        /\ \A i \in 1..Len(mem_records') :
              mem_records'[i].created_at = mem_records'[i].updated_at
        /\ mem_req'.op \in {"list", "get"} => mem_records' = mem_records ]_vars

\* Two records are stored and a list has just returned one of them.
C15_Witness ==
    /\ Len(mem_records) = 2
    /\ MemAnswered("list", {200})
    /\ Len(mem_resp.body) >= 1

---------------------------------------------------------------------------
\* Claims about the serverless handlers' responses

StandardShape(resp) ==
    /\ "ContentType" \in DOMAIN resp.headers
    /\ resp.headers.ContentType = "application/json"
    /\ "AccessControlAllowOrigin" \in DOMAIN resp.headers
    /\ resp.headers.AccessControlAllowOrigin = "*"
    /\ resp.body.t = "json_text"

\* C16: every response of a serverless handler (Engineering-Leadership
\* handler, RAG-search handler with its preflight response, health handler)
\* has Content-Type: application/json and Access-Control-Allow-Origin: * among
\* its headers and a JSON-encoded body.
C16_ResponseShape ==
    /\ h_resp # NoResponse => StandardShape(h_resp)
    /\ rl_resp # NoResponse => StandardShape(rl_resp)

\* The three deliveries of a parameters object.
Deliveries(params) ==
    {[shape |-> "direct", payload |-> params],
     [shape |-> "body_other", body |-> params],
     [shape |-> "body_str", body |-> JsonText(params)]}

\* C17: both handlers accept both payload shapes.  A parameters object gives
\* the same outcome of the Engineering-Leadership handler's parsing, and the
\* same status code and body of the RAG-search handler, whether it is the
\* event itself, an object under body, or JSON text under body.
C17_PayloadShapes ==
    /\ \A d \in Dicts : \A e1, e2 \in Deliveries(d) :
          ParseAndValidate(e1) = ParseAndValidate(e2)
    /\ \A d \in RagParams :
          rl_event \in Deliveries(d) =>
              \A e \in Deliveries(d) :
                  /\ lambda_handler(e).statusCode = rl_resp.statusCode
                  /\ lambda_handler(e).body = rl_resp.body

---------------------------------------------------------------------------
\* Claims about RAG Context Retrieval

RagContextReturned == "raised" \in DOMAIN rc_result

\* C18: get_rag_context never raises.  Whatever the four searches do, a call
\* returns a text; without a database, or with situation and context both
\* empty, it returns the empty text and attempts no search.
C18_RagContextNeverRaises ==
    RagContextReturned =>
        /\ ~rc_result.raised
        /\ (rc_args.db = "None"
              \/ (rc_args.situation = EmptyText /\ rc_args.context = EmptyText)) =>
              (rc_result.text = EmptyText /\ rc_result.searches = <<>>)

\* Both text searches raise and both regex searches raise: an empty text.
C18_Witness ==
    /\ RagContextReturned
    /\ rc_args.db = "db"
    /\ rc_args.situation = <<"s">>
    /\ rc_args.runs = [prompts |-> "raises", prompts_fallback |-> "raises",
                       patterns |-> "raises", patterns_fallback |-> "raises"]
    /\ Len(rc_result.searches) = 4
    /\ rc_result.text = EmptyText

\* The waits the loop may have slept: 2 seconds, then 4.
Backoff == <<2, 4>>

\* The lifespan has run past the model load.
ApiStarted == api_model = "model"

\* What holds of the connection loop at every moment.
StartupShape ==
    /\ api_conn.attempts <= MaxRetries
    /\ api_conn.waits = SubSeq(Backoff, 1, Len(api_conn.waits))
    /\ api_pc = "waiting" =>
           /\ api_conn.last = "timeout" /\ api_conn.attempts < MaxRetries
           /\ Len(api_conn.waits) = api_conn.attempts - 1
    /\ api_pc = "connecting" => Len(api_conn.waits) = api_conn.attempts
    /\ api_conn.last = "ok" => api_pc = "serving" /\ api_db = "db"
    /\ api_conn.last = "error" => api_pc = "aborted"
    /\ (api_conn.last = "timeout" /\ api_conn.attempts = MaxRetries) => api_pc = "aborted"
    /\ (api_pc = "aborted" /\ ApiStarted) =>
           \/ api_conn.last = "error"
           \/ api_conn.last = "timeout" /\ api_conn.attempts = MaxRetries
    /\ (api_pc = "serving" /\ ApiStarted /\ api_env) => api_conn.last = "ok"
    /\ ~api_env => api_conn.attempts = 0 /\ api_db = "None"
    /\ (ApiStarted /\ ~api_env) => api_pc = "serving"

\* C19 (as amended): with a connection string the startup makes at most 3
\* attempts; an attempt that fails with a server-selection timeout, unless it
\* is the third, is followed by a wait (2 seconds after the first, 4 after the
\* second) and then by another attempt; an attempt that fails otherwise, or the
\* third timing out, aborts the startup at once; the first success stops the
\* retrying.  Without a connection string no attempt is made and the service
\* starts without a database connection.
C19_StartupRetry ==
    /\ []StartupShape
    /\ \A k \in 1..(MaxRetries - 1) :
           (api_pc = "waiting" /\ api_conn.attempts = k)
               ~> (api_conn.attempts = k + 1 /\ api_conn.waits = SubSeq(Backoff, 1, k))

\* The third attempt succeeds after the waits of 2 and 4 seconds.
C19_Witness ==
    /\ api_pc = "serving" /\ api_db = "db" /\ api_conn.last = "ok"
    /\ api_conn.attempts = MaxRetries /\ api_conn.waits = Backoff

\* C19 (as stated): every failed attempt except the third is followed by a
\* wait and another attempt, so a startup that aborts in the connection loop
\* has made three attempts.
C19_EveryFailureRetried ==
    (api_pc = "aborted" /\ ApiStarted) => api_conn.attempts = MaxRetries

\* The search request has been answered.
ApiAnswered == api_resp.status # 0

\* C20: a search request that finds the model not loaded or the database not
\* connected is answered 503, with no embedding computed and no query issued.
C20_NotReady503 ==
    (ApiAnswered /\ (api_model = "None" \/ api_db = "None")) =>
        api_resp.status = 503 /\ api_resp.effects = <<>>

\* The model is loaded, the database is connected and it answered the ping
\* of the health check made last.
AllReady == api_model = "model" /\ api_db = "db" /\ api_health.ping_ok

AiAnswered == ai_resp.status # 0

\* C22: a request whose provider is not one of the three is answered 400; a
\* request whose provider call raises is answered 500 with the exception's
\* message.
C22_ErrorMapping ==
    AiAnswered =>
        /\ ai_req.provider \notin Providers => ai_resp.status = 400
        /\ (ai_req.provider \in Providers /\ ai_call.raised) =>
               ai_resp.status = 500 /\ ai_resp.detail = ai_call.message

\* The root logger's level and handlers (each handler with its format).
RootOf(L) == <<L.level, L.handlers>>

\* C23: once a configuration call has completed, a later configuration call,
\* whatever its arguments, leaves level, format and handlers as they were; the
\* logger accessor calls the configuration exactly when none has completed
\* (since the start or the last reset); and in the shared-utilities variant a
\* configuration call made after reset takes effect.
C23_ConfigureOnce ==
    /\ log_variant # "none" => log_state.configured = log_done
    /\ (log_last.op = "configure" /\ log_last.done_before) =>
           RootOf(log_state) = RootOf(log_last.before) /\ ~log_last.raised
    /\ log_last.op = "get_logger" =>
           /\ log_last.configures <=> ~log_last.done_before
           /\ log_last.done_before => RootOf(log_state) = RootOf(log_last.before)
    /\ (log_variant = "shared" /\ log_last.op = "configure" /\ ~log_last.raised
            /\ ~log_last.done_before /\ log_last.before.handlers = <<>>) =>
           /\ log_state.level = log_last.args.level
           /\ log_state.handlers[1] =
                  [kind |-> "stream", level |-> "NOTSET",
                   format |-> LogFormat(log_last.args.json_format)]
           /\ log_state.configured

\* A second configuration call with other arguments has been made.
C23_Witness ==
    /\ log_last.op = "configure" /\ log_last.done_before
    /\ log_last.args.level # log_state.level

\* A configuration made after a reset in the shared variant took effect.
C23_WitnessReset ==
    /\ log_variant = "shared" /\ log_last.op = "configure"
    /\ log_last.after = "reset" /\ log_last.before.level = "INFO"
    /\ log_state.configured /\ log_state.level = "DEBUG"

\* The step from old to new appended text after a newline to one of the
\* accumulators, added 1 to the counter and left every other field alone.
RoleTurnFrame(old, new, accumulators, counter) ==
    \E f \in accumulators :
        /\ IsPrefix(old[f] \o <<NL>>, new[f])
        /\ new[counter] = old[counter] + 1
        /\ \A g \in DOMAIN old \ {f, counter} : new[g] = old[g]

\* The accumulators of the role turns of each workflow.
ELAccumulators ==
    {"director_notes", "manager_notes", "tech_lead_notes", "architect_notes"}
ArtAccumulators ==
    {"article_structure", "technical_content", "community_content",
     "product_content", "seo_content"}
TTAccumulators ==
    {"scrum_master_analysis", "product_manager_analysis", "vp_eng_analysis",
     "tech_lead_analysis", "architect_analysis"}

\* C24: in every workflow a role turn that executes appends the returned text
\* to its own accumulator after a newline (the previous content stays a
\* prefix), adds exactly 1 to the shared counter and leaves every other field
\* unchanged.
C24_RoleTurnAppends ==
    [][ /\ (InvokeELNode /\ el_state' # el_state) =>
               RoleTurnFrame(el_state, el_state', ELAccumulators, "turn_count")
        /\ (InvokeArtNode /\ art_state'.turn_count # art_state.turn_count) =>
               RoleTurnFrame(art_state, art_state', ArtAccumulators, "turn_count")
        /\ (InvokeTTRoleNode /\ tt_state' # tt_state) =>
               RoleTurnFrame(tt_state, tt_state', TTAccumulators, "round_count") ]_vars

\* The step is the Architect turn making its model call.
ArchitectCalls == tt_node = "architect" /\ Len(tt_calls') = Len(tt_calls) + 1

\* C25: whenever the Architect turn makes its model call, the VP of
\* Engineering and Tech Lead turns of the same pass have made theirs just
\* before it, in this order, and written their analyses (the run goes on only
\* after a turn that returned); the Tech Lead and VP of Engineering prompts
\* never include the Architect's analysis.
C25_ArchitectLast ==
    [][ /\ ArchitectCalls =>
               LET n == Len(tt_calls)
               IN  /\ n >= 4
                   /\ tt_calls[n] \in STRING /\ tt_calls[n] = "Tech Lead"
                   /\ tt_calls[n - 1] \in STRING
                   /\ tt_calls[n - 1] = "VP of Engineering"
                   /\ tt_state.round_count >= 4
                   /\ "architect_analysis" \notin TTReads("tech_lead") \cup TTReads("vp_eng")
                   /\ TTReads("architect") = {"tech_lead_analysis", "vp_eng_analysis"} ]_vars

\* The Architect has made its model call in a second pass.
C25_Witness ==
    /\ tt_node = "challenge_round" /\ Len(tt_calls) = 16
    /\ tt_calls[16] \in STRING /\ tt_calls[16] = "Architect"

\* The step is a consensus-building step that returned.
ConsensusReturns == tt_node = "consensus_building" /\ tt_node' # "raised"

\* C26: in a Think Tank run started with consensus_reached false it stays
\* false; after every consensus-building step agreements, concerns, blockers,
\* recommendations and action_items are empty and final_recommendation is the
\* whole response of that step's model call.
C26_ConsensusNeverReached ==
    /\ [](tt_state.consensus_reached = FALSE)
    /\ [][ ConsensusReturns =>
             /\ tt_state'.agreements = <<>> /\ tt_state'.concerns = <<>>
             /\ tt_state'.blockers = <<>> /\ tt_state'.recommendations = <<>>
             /\ tt_state'.action_items = <<>>
             /\ \E out \in LLMOutcomes :
                    /\ out.ok /\ tt_state' = consensus_building(tt_state, out).st
                    /\ tt_state'.final_recommendation = out.content ]_vars

\* The consensus-building step of a second pass has returned with a
\* non-empty response.
C26_Witness ==
    /\ tt_node = "END" /\ Len(tt_calls) > 12
    /\ tt_state.final_recommendation = <<"a">> /\ ~tt_state.consensus_reached

\* The tags passed to the call of merge_tags, standard first.
AllTags == mt_args.standard \o (IF mt_args.given THEN mt_args.additional ELSE <<>>)

\* The positions of AllTags that hold a non-empty tag with a colon not seen
\* at an earlier position.
FirstValid ==
    {i \in 1..Len(AllTags) :
        /\ AllTags[i] # <<>>
        /\ \E k \in 1..Len(AllTags[i]) : AllTags[i][k] = ":"
        /\ \A j \in 1..(i - 1) : AllTags[j] # AllTags[i]}

\* The k-th smallest of a set of positions.
Nth(S, k) == CHOOSE i \in S : Cardinality({j \in S : j < i}) = k - 1

\* C27: merge_tags returns the standard tags followed by the additional tags,
\* without the empty tags and the tags lacking a colon, each tag kept at its
\* first occurrence only and in order; the result has no duplicates, and
\* merging it again with no additional tags returns it unchanged.
C27_MergeTags ==
    "tags" \in DOMAIN mt_result =>
        LET r == mt_result.tags
        IN  /\ Len(r) = Cardinality(FirstValid)
            /\ \A k \in 1..Len(r) : r[k] = AllTags[Nth(FirstValid, k)]
            /\ \A i, j \in 1..Len(r) : i # j => r[i] # r[j]
            /\ merge_tags(r, <<>>) = r

\* A call whose standard tags hold a tag without a colon and whose additional
\* tags repeat a standard tag.
C27_Witness ==
    /\ "tags" \in DOMAIN mt_result /\ mt_args.given
    /\ mt_args.standard = <<Tag("org", "A"), <<"bare">>>>
    /\ mt_args.additional = <<Tag("team", "core"), Tag("org", "A")>>
    /\ mt_result.tags = <<Tag("org", "A"), Tag("team", "core")>>

\* The flag is among the flags of the report.
Flagged(flag) == \E i \in 1..Len(slop_result.flags) : slop_result.flags[i] = flag

\* C28: has_links is true exactly when the text contains "http" and also both
\* "[" and "]"; has_code, has_numbers and has_links are flagged independently,
\* and "No citations/links" is flagged exactly when has_links is false.
C28_HasLinks ==
    "flags" \in DOMAIN slop_result =>
        /\ slop_result.has_links <=>
               (In("http", slop_text) /\ In("[", slop_text) /\ In("]", slop_text))
        /\ slop_result.has_code <=> In("backtick", slop_text)
        /\ slop_result.has_numbers <=> In("7", slop_text)
        /\ Flagged("No code examples") <=> ~slop_result.has_code
        /\ Flagged("No specific numbers/data") <=> ~slop_result.has_numbers
        /\ Flagged("No citations/links") <=> ~slop_result.has_links

\* The run is over: the graph reached its end, or a model call raised out
\* of it.
ELOver == el_node \in {"END", "raised"}

\* The turn_count a run ends with.
ELFinalTurns(state) ==
    IF state.current_topic # EmptyText /\ state.max_turns >= 8 THEN 8
    ELSE state.max_turns

\* C29: every Engineering-Leadership run started at turn_count 0, for every
\* max_turns >= 0 and every current_topic, is over after finitely many turns;
\* one that reaches the end has turn_count 8 when current_topic is non-empty
\* and max_turns >= 8, and max_turns otherwise; a run driven by the handler
\* (max_turns 12, current_topic the non-blank situation) ends after exactly 8
\* turns and never starts a third round.
C29_ELTerminates ==
    /\ (el_node = "director" /\ el_state.turn_count = 0) ~> ELOver
    /\ [](el_node = "END" => el_state.turn_count = ELFinalTurns(el_state))
    /\ [](el_state.turn_count <= ELFinalTurns(el_state))
    /\ [](h_pc = "run" =>
            /\ el_state.max_turns = 12
            /\ el_state.current_topic = el_state.situation
            /\ el_state.current_topic # EmptyText
            /\ el_state.turn_count <= 8
            /\ el_node = "END" => el_state.turn_count = 8)

\* A run driven by the handler has reached the end.
C29_Witness ==
    /\ h_pc = "run" /\ el_node = "END" /\ el_state.turn_count = 8
    /\ el_end = "end_min_rounds"

\* C30: in a Think Tank run started with round_count <= max_rounds,
\* round_count never exceeds max_rounds.
C30_RoundCeiling == tt_state.round_count <= tt_state.max_rounds
====
